---- MODULE Spec2Model ----
(***************************************************************************)
(* Answer extraction, vote aggregation and the blind-review vote of the    *)
(* multi-agent debate scripts under src/gsm.                               *)
(*                                                                         *)
(* A text is a sequence of tokens.  Every token is one character, except   *)
(* BOXED, which abbreviates the six characters \boxed (none of which is a  *)
(* digit, a sign, a dot, whitespace, a brace or '#', so every regular      *)
(* expression below treats the six like one ordinary character).           *)
(* Python's None, the string "Error" and a raised exception are the        *)
(* one-token texts NoneVal, ErrorVal and IndexError, which no response can *)
(* spell.                                                                  *)
(***************************************************************************)
EXTENDS Integers, Sequences, FiniteSets, TLC

VARIABLES
    pc,                  \* position of the script being run
    text,                \* Extractor input: the response text
    npieces,             \* number of pieces the response was composed of
    extracted,           \* result of every extractor on text
    final_round_results, \* evaluation scripts: the agents' final-round items
    decisions,           \* evaluation scripts: the decision of every vote path
    mapping,             \* 3_7: label -> original agent index
    judge,               \* 3_7: number of judges that have reviewed
    scores_map,          \* 3_7: original agent index -> scores received
    final_answers,       \* 3_7: round 3 answer of each agent
    results,             \* 3_7, critic-actor: the record of each processed question
    ground_truth,        \* Scorer input: the ground truth text of a question
    prediction,          \* Scorer input: the decision, or the response text
    verdict,             \* result of every scorer on the pair
    response_dict,       \* analysis scripts: the persisted result mapping
    original_questions,  \* compare_accuracies: the questions of the baseline file
    report,              \* analysis scripts: what each script computed
    script,              \* generation scripts: the script being run
    questions,           \* generation scripts: the questions of the data file
    output_file,         \* generation scripts: the output file on disk
    generated_description, \* generation scripts: the records held in memory
    idx,                 \* generation scripts: position in questions
    calls,               \* model calls answered for the current question
    runs,                \* number of times the script was started
    events,              \* how often a question was generated (2: more than
                         \* once), whether one was skipped, whether a call failed
    rounds,              \* debate of one question: the configured rounds
    agent_contexts,      \* debate: the message list of every agent
    round_idx,           \* debate: the round being run
    agent_i,             \* debate: the next agent to be called in the round
    this_round,          \* debate: answers and critic scores of the round
    config,              \* critic-actor scripts: config['agents'], config['rounds']
    all_rounds_results,  \* critic-actor scripts: the items of every round so far
    blind_reviews,       \* 3_7: the parsed reviews of every judge
    my_feedback,         \* 3_7: the reviews shown to every agent in round 3
    json_data,           \* repair_json_3_7: data, the mapping loaded from the file
    json_before          \* history: the file as it was before the first repair

extractVars == <<text, npieces, extracted>>
voteVars == <<final_round_results, decisions>>
genVars == <<mapping, judge, scores_map, final_answers, results>>
scoreVars == <<ground_truth, prediction, verdict>>
\* What the extractor, vote and blind-review steps leave alone.
analysisVars == <<response_dict, original_questions, report>>
runVars == <<script, questions, output_file, generated_description, idx, calls,
             runs, events>>
debateVars == <<rounds, agent_contexts, round_idx, agent_i, this_round, config,
                all_rounds_results>>
reviewVars == <<blind_reviews, my_feedback>>
repairVars == <<json_data, json_before>>
restVars == <<scoreVars, analysisVars, runVars, debateVars, reviewVars, repairVars>>

vars == <<pc, extractVars, voteVars, genVars, restVars>>

-----------------------------------------------------------------------------
(* Tokens and character classes *)

BOXED == "\\boxed"
NoneVal == <<"None">>
ErrorVal == <<"Error">>
IndexError == <<"IndexError">>
Unset == <<"unset">>

Digits == {"0", "1", "2", "3", "4", "5", "6", "7", "8", "9"}
IsDigit(c) == c \in Digits
IsSign(c) == c \in {"-", "+"}
IsSpace(c) == c \in {" ", "\t", "\n"}
IsPayloadChar(c) == IsDigit(c) \/ c \in {".", ",", "$"}
NotCloseBrace(c) == c # "}"
NotNewline(c) == c # "\n"
IsNumChar(c) == IsDigit(c) \/ c = "."

\* First index j >= i at which the run of P-characters starting at i stops
\* (Len(s)+1 when it runs to the end): a greedy character-class repetition.
RunEnd(s, i, P(_)) ==
    CHOOSE j \in i..(Len(s) + 1) :
        /\ \A k \in i..(j - 1) : P(s[k])
        /\ (j = Len(s) + 1 \/ ~P(s[j]))

At(s, i, c) == i >= 1 /\ i <= Len(s) /\ s[i] = c
DigitAt(s, i) == i >= 1 /\ i <= Len(s) /\ IsDigit(s[i])

\* A match is <<group start, group end, match end>> (ends exclusive), or <<>>.
NoMatch == <<>>

\* re.findall(pattern, s): leftmost non-overlapping matches, left to right.
FindAll(s, M(_, _)) ==
    LET scan[i \in 1..(Len(s) + 1)] ==
            IF i > Len(s) THEN <<>>
            ELSE LET m == M(s, i)
                 IN  IF m = NoMatch THEN scan[i + 1]
                     ELSE <<SubSeq(s, m[1], m[2] - 1)>> \o scan[m[3]]
    IN  scan[1]

\* re.search(pattern, s): the group of the leftmost match, or NoneVal.
Search(s, M(_, _)) ==
    LET hits == {i \in 1..Len(s) : M(s, i) # NoMatch}
    IN  IF hits = {} THEN NoneVal
        ELSE LET i == CHOOSE h \in hits : \A g \in hits : h <= g
                 m == M(s, i)
             IN  SubSeq(s, m[1], m[2] - 1)

Last(q) == q[Len(q)]

\* str.strip()
Strip(s) ==
    LET keep == {i \in 1..Len(s) : ~IsSpace(s[i])}
    IN  IF keep = {} THEN <<>>
        ELSE SubSeq(s, CHOOSE a \in keep : \A b \in keep : a <= b,
                       CHOOSE a \in keep : \A b \in keep : a >= b)

-----------------------------------------------------------------------------
(* The regular expressions of the scripts, each matched at position i *)

\* \\boxed\{([0-9.,$]*)\}
MatchBoxedNumeric(s, i) ==
    IF At(s, i, BOXED) /\ At(s, i + 1, "{")
    THEN LET j == RunEnd(s, i + 2, IsPayloadChar)
         IN  IF At(s, j, "}") THEN <<i + 2, j, j + 1>> ELSE NoMatch
    ELSE NoMatch

\* \{([0-9.,$]*)\}
MatchBraceNumeric(s, i) ==
    IF At(s, i, "{")
    THEN LET j == RunEnd(s, i + 1, IsPayloadChar)
         IN  IF At(s, j, "}") THEN <<i + 1, j, j + 1>> ELSE NoMatch
    ELSE NoMatch

\* \\boxed\{([^\}]+)\}
MatchBoxedAny(s, i) ==
    IF At(s, i, BOXED) /\ At(s, i + 1, "{")
    THEN LET j == RunEnd(s, i + 2, NotCloseBrace)
         IN  IF j > i + 2 /\ At(s, j, "}") THEN <<i + 2, j, j + 1>> ELSE NoMatch
    ELSE NoMatch

\* \d+\.?\d*
MatchNumber(s, i) ==
    IF DigitAt(s, i)
    THEN LET d == RunEnd(s, i, IsDigit)
             e == IF At(s, d, ".") THEN RunEnd(s, d + 1, IsDigit) ELSE d
         IN  <<i, e, e>>
    ELSE NoMatch

\* (\d+\.?\d*)\s*$
MatchNumberAtEnd(s, i) ==
    IF DigitAt(s, i)
    THEN LET d == RunEnd(s, i, IsDigit)
             \* the group ends where only whitespace is left
             ends == {e \in {d} \cup (IF At(s, d, ".")
                                      THEN {d + 1, RunEnd(s, d + 1, IsDigit)}
                                      ELSE {}) :
                         RunEnd(s, e, IsSpace) = Len(s) + 1}
         IN  IF ends = {} THEN NoMatch
             ELSE LET e == CHOOSE x \in ends : \A y \in ends : x >= y
                  IN  <<i, e, Len(s) + 1>>
    ELSE NoMatch

\* -?\d+\.?\d*
MatchSignedNumber(s, i) ==
    LET st == IF At(s, i, "-") THEN i + 1 ELSE i
        m == MatchNumber(s, st)
    IN  IF m = NoMatch THEN NoMatch ELSE <<i, m[2], m[3]>>

\* [-+]?\d*\.?\d+
MatchLastNumber(s, i) ==
    LET st == IF i <= Len(s) /\ IsSign(s[i]) THEN i + 1 ELSE i
        d == RunEnd(s, st, IsDigit)
    IN  IF At(s, d, ".") /\ DigitAt(s, d + 1)
        THEN LET e == RunEnd(s, d + 1, IsDigit) IN <<i, e, e>>
        ELSE IF d > st THEN <<i, d, d>>
        ELSE NoMatch

\* [-+]?\d*\.\d+|\d+
MatchDecimalOrDigits(s, i) ==
    LET st == IF i <= Len(s) /\ IsSign(s[i]) THEN i + 1 ELSE i
        d == RunEnd(s, st, IsDigit)
    IN  IF At(s, d, ".") /\ DigitAt(s, d + 1)
        THEN LET e == RunEnd(s, d + 1, IsDigit) IN <<i, e, e>>
        ELSE IF DigitAt(s, i)
        THEN LET e == RunEnd(s, i, IsDigit) IN <<i, e, e>>
        ELSE NoMatch

\* ####\s*(.+)
MatchHashes(s, i) ==
    IF At(s, i, "#") /\ At(s, i + 1, "#") /\ At(s, i + 2, "#") /\ At(s, i + 3, "#")
    THEN LET sp == RunEnd(s, i + 4, IsSpace)
             \* \s* gives characters back until .+ finds one that is no newline
             starts == {p \in (i + 4)..sp : p <= Len(s) /\ s[p] # "\n"}
         IN  IF starts = {} THEN NoMatch
             ELSE LET p == CHOOSE x \in starts : \A y \in starts : x >= y
                      e == RunEnd(s, p, NotNewline)
                  IN  <<p, e, e>>
    ELSE NoMatch

-----------------------------------------------------------------------------
(* Extractors *)

\* re.sub(r"[^0-9.]", "", match_str)
CleanPayload(m) == SelectSeq(m, IsNumChar)

\* for match_str in matches[::-1]: solution = clean(match_str); if solution: break
\* (called with k = Len(matches) >= 1)
RECURSIVE LastCleanPayload(_, _)
LastCleanPayload(matches, k) ==
    LET solution == CleanPayload(matches[k])
    IN  IF solution # <<>> \/ k = 1 THEN solution
        ELSE LastCleanPayload(matches, k - 1)

\* Variant of CleanLoop: the matches are tried first to last (matches, not
\* matches[::-1]).
RECURSIVE FirstCleanPayload(_, _)
FirstCleanPayload(matches, k) ==
    LET solution == CleanPayload(matches[k])
    IN  IF solution # <<>> \/ k = Len(matches) THEN solution
        ELSE FirstCleanPayload(matches, k + 1)

CleanLoopForward(matches) ==
    IF matches = <<>> THEN NoneVal ELSE FirstCleanPayload(matches, 1)

CleanLoop(matches) ==
    IF matches = <<>> THEN NoneVal ELSE LastCleanPayload(matches, Len(matches))

\* solve_math_problems of the evaluation scripts
solve_math_problems(input_str) ==
    LET matches == FindAll(input_str, MatchNumber)
    IN  IF matches # <<>> THEN Last(matches) ELSE NoneVal

\* parse_answer of analyze_results.py and legacy/eval_math_critic_actor.py
parse_answer(input_str) ==
    LET solution == CleanLoop(FindAll(input_str, MatchBoxedNumeric))
    IN  IF solution = NoneVal
        THEN LET matches == FindAll(input_str, MatchNumberAtEnd)
             IN  IF matches # <<>> THEN Last(matches) ELSE NoneVal
        ELSE solution

\* parse_answer of v3.7/eval_gsm_3_7_detailed.py and v3.6/eval_gsm_3_6_detailed.py
parse_answer_detailed(input_str) ==
    LET boxed == FindAll(input_str, MatchBoxedNumeric)
        matches == IF boxed = <<>> THEN FindAll(input_str, MatchBraceNumeric)
                   ELSE boxed
        solution == CleanLoop(matches)
    IN  IF solution = NoneVal THEN solve_math_problems(input_str) ELSE solution

\* parse_answer of filter_gsm_hard.py
parse_answer_filter(input_str) ==
    CleanLoop(FindAll(input_str, MatchBraceNumeric))

\* parse_answer of compare_accuracies.py
parse_answer_compare(solution_text) ==
    IF solution_text = <<>> THEN NoneVal
    ELSE LET match == Search(solution_text, MatchHashes)
         IN  IF match # NoneVal THEN Strip(match)
             ELSE LET numbers == FindAll(solution_text, MatchDecimalOrDigits)
                  IN  IF numbers # <<>> THEN Last(numbers) ELSE NoneVal

\* extract_boxed_answer of gen_math_critic_actor_3_7.py
extract_boxed_answer(t) ==
    LET match == Search(t, MatchBoxedAny)
    IN  IF match # NoneVal THEN match
        ELSE LET numbers == FindAll(t, MatchSignedNumber)
             IN  IF numbers # <<>> THEN Last(numbers) ELSE ErrorVal

\* extract_boxed_number of gen_gsm_group.py
extract_boxed_number(t) ==
    LET m == Search(t, MatchBoxedAny)
    IN  IF m = NoneVal THEN NoneVal ELSE Strip(m)

\* extract_number of the confiscore scripts
extract_number(t) ==
    LET m == FindAll(t, MatchLastNumber)
    IN  IF m # <<>> THEN Last(m) ELSE NoneVal

-----------------------------------------------------------------------------
(* Response texts *)

Marker(payload) == <<BOXED, "{">> \o payload \o <<"}">>

\* What a response is composed of: final-answer markers and prose.
Pieces ==
    { Marker(<<"5">>), Marker(<<"$", "7", ",", "5">>), Marker(<<"$">>),
      Marker(<<"-", "5">>), Marker(<<"1", ".", "2", ".", "3">>),
      <<"#", "#", "#", "#">>,
      <<"5">>, <<"7">>, <<".">>, <<"-">>, <<" ">>, <<"a">> }

MaxPieces == 4

NoExtraction ==
    [parse_answer |-> Unset, parse_answer_detailed |-> Unset,
     parse_answer_filter |-> Unset, parse_answer_compare |-> Unset,
     extract_boxed_answer |-> Unset, extract_boxed_number |-> Unset,
     extract_number |-> Unset]

IdleVote ==
    /\ final_round_results = <<>>
    /\ decisions = Unset
IdleGen ==
    /\ mapping = <<>>
    /\ judge = 0
    /\ scores_map = <<>>
    /\ final_answers = <<>>
    /\ results = <<>>
IdleExtract ==
    /\ text = <<>>
    /\ npieces = 0
    /\ extracted = NoExtraction
NoVerdict ==
    [check_correctness |-> "unset", is_correct_3_7 |-> "unset",
     check_correctness_detailed |-> "unset", compute_accuracy_filter |-> "unset",
     is_correct |-> "unset"]
IdleScore ==
    /\ ground_truth = <<>>
    /\ prediction = <<>>
    /\ verdict = NoVerdict
NotRun == [status |-> "unset", correct |-> 0, denominator |-> 0]
NoReport ==
    [legacy |-> NotRun, compare |-> NotRun, detailed_3_7 |-> NotRun,
     detailed_3_6 |-> NotRun, analyze_results |-> NotRun,
     categories |-> [win |-> {}, loss |-> {}, correct |-> {}, incorrect |-> {}],
     printed |-> [total_questions |-> 0]]
IdleAnalysis ==
    /\ response_dict = <<>>
    /\ original_questions = {}
    /\ report = NoReport
NoFile == [exists |-> FALSE, data |-> <<>>]
QuestionIds == {1, 2}
NoEvents ==
    [generated |-> [q \in QuestionIds |-> 0], skipped |-> FALSE, failed |-> FALSE]
IdleRun ==
    /\ script = "none"
    /\ questions = <<>>
    /\ output_file = NoFile
    /\ generated_description = <<>>
    /\ idx = 0
    /\ calls = 0
    /\ runs = 0
    /\ events = NoEvents
NoRound == [answers |-> <<>>, scores |-> <<>>]
NoConfig == [agents |-> 0, rounds |-> 0]
IdleDebate ==
    /\ rounds = 0
    /\ agent_contexts = <<>>
    /\ round_idx = 0
    /\ agent_i = 0
    /\ this_round = NoRound
    /\ config = NoConfig
    /\ all_rounds_results = <<>>
IdleReview ==
    /\ blind_reviews = <<>>
    /\ my_feedback = <<>>
IdleRepair ==
    /\ json_data = <<>>
    /\ json_before = <<>>
IdleRest ==
    IdleScore /\ IdleAnalysis /\ IdleRun /\ IdleDebate /\ IdleReview /\ IdleRepair

InitExtract ==
    /\ pc = "compose"
    /\ IdleExtract
    /\ IdleVote
    /\ IdleGen
    /\ IdleRest

\* The model writes one more piece of its response.
Compose(p) ==
    /\ pc = "compose"
    /\ npieces < MaxPieces
    /\ text' = text \o p
    /\ npieces' = npieces + 1
    /\ UNCHANGED <<pc, extracted, final_round_results, decisions,
                   mapping, judge, scores_map, final_answers, results, restVars>>

\* Every extractor of the repository is run on the finished response.
Extract ==
    /\ pc = "compose"
    /\ pc' = "extracted"
    /\ extracted' =
        [parse_answer |-> parse_answer(text),
         parse_answer_detailed |-> parse_answer_detailed(text),
         parse_answer_filter |-> parse_answer_filter(text),
         parse_answer_compare |-> parse_answer_compare(text),
         extract_boxed_answer |-> extract_boxed_answer(text),
         extract_boxed_number |-> extract_boxed_number(text),
         extract_number |-> extract_number(text)]
    /\ UNCHANGED <<text, npieces, final_round_results, decisions,
                   mapping, judge, scores_map, final_answers, results, restVars>>

NextExtract == (\E p \in Pieces : Compose(p)) \/ Extract

SpecExtract == InitExtract /\ [][NextExtract]_vars

-----------------------------------------------------------------------------
(* Python dicts: a sequence of <<key, value>> pairs in insertion order *)

MaxOf(S) == CHOOSE x \in S : \A y \in S : x >= y
MinOf(S) == CHOOSE x \in S : \A y \in S : x <= y

DictHas(d, k) == \E i \in 1..Len(d) : d[i][1] = k
DictGet(d, k, default) ==
    IF DictHas(d, k) THEN d[CHOOSE i \in 1..Len(d) : d[i][1] = k][2] ELSE default
DictSet(d, k, v) ==
    IF DictHas(d, k)
    THEN [d EXCEPT ![CHOOSE i \in 1..Len(d) : d[i][1] = k] = <<k, v>>]
    ELSE Append(d, <<k, v>>)
DictKeys(d) == {d[i][1] : i \in 1..Len(d)}

\* Variant of DictMaxKey: the last of the keys with the largest value.
DictMaxKeyLast(d) ==
    d[MaxOf({i \in 1..Len(d) : \A j \in 1..Len(d) : d[j][2] <= d[i][2]})][1]

\* max(d, key=d.get), max(d.items(), key=lambda x: x[1])[0] and
\* Counter.most_common(1)[0][0]: the first key no other key's value exceeds.
DictMaxKey(d) ==
    d[MinOf({i \in 1..Len(d) : \A j \in 1..Len(d) : d[j][2] <= d[i][2]})][1]

-----------------------------------------------------------------------------
(* Majority and weighted votes of the evaluation scripts and of gen_gsm_group *)

\* list.count(x)
Count(List, x) == Cardinality({i \in 1..Len(List) : List[i] = x})

\* Variant of MostFrequentLoop: >= instead of >, the last of the tied answers wins.
RECURSIVE MostFrequentLoopLast(_, _, _, _)
MostFrequentLoopLast(List, k, counter, num) ==
    IF k > Len(List) THEN num
    ELSE LET current_frequency == Count(List, List[k])
         IN  IF current_frequency >= counter
             THEN MostFrequentLoopLast(List, k + 1, current_frequency, List[k])
             ELSE MostFrequentLoopLast(List, k + 1, counter, num)

\* for i in List: if List.count(i) > counter: counter, num = List.count(i), i
RECURSIVE MostFrequentLoop(_, _, _, _)
MostFrequentLoop(List, k, counter, num) ==
    IF k > Len(List) THEN num
    ELSE LET current_frequency == Count(List, List[k])
         IN  IF current_frequency > counter
             THEN MostFrequentLoop(List, k + 1, current_frequency, List[k])
             ELSE MostFrequentLoop(List, k + 1, counter, num)

\* most_frequent of legacy/eval_math_critic_actor.py
most_frequent(List) ==
    IF List = <<>> THEN NoneVal ELSE MostFrequentLoop(List, 1, 0, List[1])

\* most_frequent of filter_gsm_hard.py: List[0] raises on an empty list
most_frequent_filter(List) ==
    IF List = <<>> THEN IndexError ELSE MostFrequentLoop(List, 1, 0, List[1])

\* Counter(List), and the counts dictionary of run_group_debate
RECURSIVE Tally(_, _, _)
Tally(List, k, counts) ==
    IF k > Len(List) THEN counts
    ELSE Tally(List, k + 1, DictSet(counts, List[k], DictGet(counts, List[k], 0) + 1))

\* most_frequent of compare_accuracies.py
most_frequent_counter(List) ==
    IF List = <<>> THEN NoneVal
    ELSE LET counts == Tally(List, 1, <<>>)
         IN  IF counts = <<>> THEN NoneVal ELSE DictMaxKey(counts)

\* [f(x) for x in solutions], and the same without the None results
MapAnswers(solutions, F(_)) ==
    LET m[k \in 1..(Len(solutions) + 1)] ==
            IF k > Len(solutions) THEN <<>>
            ELSE <<F(solutions[k])>> \o m[k + 1]
    IN  m[1]
NotNone(List) == SelectSeq(List, LAMBDA a : a # NoneVal)

\* get_final_decision of compare_accuracies.py
get_final_decision(pred_solutions) ==
    LET pred_answers == NotNone(MapAnswers(pred_solutions, parse_answer_compare))
    IN  IF pred_answers = <<>> THEN NoneVal ELSE most_frequent_counter(pred_answers)

\* parse_answer, then solve_math_problems when it found nothing
ParseOrSolve(pred_solution) ==
    LET pred_answer == parse_answer(pred_solution)
    IN  IF pred_answer = NoneVal THEN solve_math_problems(pred_solution)
        ELSE pred_answer
ParseOrSolveFilter(pred_sol) ==
    LET pred_answer == parse_answer_filter(pred_sol)
    IN  IF pred_answer = NoneVal THEN solve_math_problems(pred_sol) ELSE pred_answer

\* The vote of compute_accuracy in legacy/eval_math_critic_actor.py: the
\* prediction that is compared with the ground truth (NoneVal: it returned 0
\* before voting).
legacy_vote(pred_solutions) ==
    LET pred_answers == NotNone(MapAnswers(pred_solutions, ParseOrSolve))
    IN  IF pred_answers = <<>> THEN NoneVal ELSE most_frequent(pred_answers)

\* The vote of compute_accuracy in filter_gsm_hard.py (list branch): every
\* pred_answer is appended, None included.
filter_vote(pred_solution) ==
    most_frequent_filter(MapAnswers(pred_solution, ParseOrSolveFilter))

\* The final vote of run_group_debate: counts, then final_answer.
group_counts(agent_last_output) ==
    Tally(NotNone(MapAnswers(agent_last_output, extract_boxed_number)), 1, <<>>)
group_vote(agent_last_output) ==
    LET counts == group_counts(agent_last_output)
    IN  IF counts # <<>> THEN DictMaxKey(counts) ELSE NoneVal

\* Variant of TotalWeight: the computation score is left out.
TotalWeightLogicOnly(score) == score.logic_score

\* total_weight = logic + comp
TotalWeight(score) == score.logic_score + score.computation_score

\* answer_scores of the weighted voting simulation in compare_accuracies.main
RECURSIVE AnswerScores(_, _, _)
AnswerScores(items, k, answer_scores) ==
    IF k > Len(items) THEN answer_scores
    ELSE LET ans == parse_answer_compare(items[k].solution)
         IN  IF ans = NoneVal THEN AnswerScores(items, k + 1, answer_scores)
             ELSE AnswerScores(items, k + 1,
                      DictSet(answer_scores, ans,
                              DictGet(answer_scores, ans, 0) + TotalWeight(items[k].score)))

weighted_decision(items) ==
    LET answer_scores == AnswerScores(items, 1, <<>>)
    IN  IF answer_scores # <<>> THEN DictMaxKey(answer_scores) ELSE NoneVal

RECURSIVE Solutions(_, _)
Solutions(items, k) ==
    IF k > Len(items) THEN <<>>
    ELSE <<items[k].solution>> \o Solutions(items, k + 1)

\* The agents' final responses and the critic's scores of them.
Responses == { Marker(<<"5">>), Marker(<<"7">>), <<"a">> }
Scores == { [logic_score |-> 5, computation_score |-> 4],
            [logic_score |-> 1, computation_score |-> 0] }

MaxAgents == 5

InitVote ==
    /\ pc = "collect"
    /\ final_round_results = <<>>
    /\ decisions = Unset
    /\ IdleExtract
    /\ IdleGen
    /\ IdleRest

\* One more agent's final-round item is in the result file.
AddAgent(resp, sc) ==
    /\ pc = "collect"
    /\ Len(final_round_results) < MaxAgents
    /\ final_round_results' = Append(final_round_results, [solution |-> resp, score |-> sc])
    /\ UNCHANGED <<pc, decisions, text, npieces, extracted,
                   mapping, judge, scores_map, final_answers, results, restVars>>

\* Every vote path is run on the question's final-round items.
Evaluate ==
    /\ pc = "collect"
    /\ pc' = "evaluated"
    /\ LET sols == Solutions(final_round_results, 1)
       IN  decisions' =
             [get_final_decision |-> get_final_decision(sols),
              legacy_vote |-> legacy_vote(sols),
              filter_vote |-> filter_vote(sols),
              group_vote |-> group_vote(sols),
              counts |-> group_counts(sols),
              weighted_decision |-> weighted_decision(final_round_results),
              answer_scores |-> AnswerScores(final_round_results, 1, <<>>)]
    /\ UNCHANGED <<final_round_results, text, npieces, extracted,
                   mapping, judge, scores_map, final_answers, results, restVars>>

NextVote == (\E resp \in Responses, sc \in Scores : AddAgent(resp, sc)) \/ Evaluate

SpecVote == InitVote /\ [][NextVote]_vars

-----------------------------------------------------------------------------
(* gen_math_critic_actor_3_7.py: blind review and weighted vote of one question *)

NumAgents == 3
Agents == 0..(NumAgents - 1)
labels == <<"A", "B", "C">>
score_threshold == 4
max_score == 10
alpha == 1

\* Rationals <<numerator, denominator>> in lowest terms stand for the floats.
RECURSIVE GCD(_, _)
GCD(a, b) == IF b = 0 THEN a ELSE GCD(b, a % b)
Rat(n, d) == IF n = 0 THEN <<0, 1>> ELSE <<n \div GCD(n, d), d \div GCD(n, d)>>
RatLess(a, b) == a[1] * b[2] < b[1] * a[2]
\* Python's max(a, b) and min(a, b): the first argument unless the second is
\* strictly larger (smaller)
RatMax(a, b) == IF RatLess(a, b) THEN b ELSE a
RatMin(a, b) == IF RatLess(b, a) THEN b ELSE a

RECURSIVE SumSeq(_, _)
SumSeq(q, k) == IF k > Len(q) THEN 0 ELSE q[k] + SumSeq(q, k + 1)

\* raw_avg = np.mean(scores_map[i]) if scores_map[i] else 0.0
RawAvg(scores) ==
    IF scores # <<>> THEN Rat(SumSeq(scores, 1), Len(scores)) ELSE <<0, 1>>

\* Variant of PassesGate: an average equal to the threshold is filtered out too.
PassesGateStrict(raw_avg) == RatLess(<<score_threshold, 1>>, raw_avg)

\* if raw_avg < score_threshold: continue
PassesGate(raw_avg) == ~RatLess(raw_avg, <<score_threshold, 1>>)

\* norm_score = max(0.0, min(1.0, raw_avg / max_score))
NormScore(raw_avg) ==
    RatMax(<<0, 1>>, RatMin(<<1, 1>>, Rat(raw_avg[1], raw_avg[2] * max_score)))

\* math.exp(alpha * norm_score) in millionths: the Taylor series of exp at
\* x = p/q in [0, 1], which keeps the order of the weights and of their sums.
ExpUnit == 1000000
ExpTerms == 12
RECURSIVE ExpSeries(_, _, _, _)
ExpSeries(term, n, p, q) ==
    IF n > ExpTerms \/ term = 0 THEN 0
    ELSE term + ExpSeries((term * p) \div (q * n), n + 1, p, q)
Weight(norm_score) == ExpSeries(ExpUnit, 1, alpha * norm_score[1], norm_score[2])

\* Variant of RawScoreUpdate: the answer's raw score is overwritten, not maximised.
RawScoreOverwrite(old, raw_avg) == raw_avg

\* raw_scores_map[ans] = max(raw_scores_map.get(ans, 0), raw_avg)
RawScoreUpdate(old, raw_avg) == RatMax(old, raw_avg)

\* max(raw_scores_map, key=raw_scores_map.get)
RatDictMaxKey(d) ==
    d[MinOf({i \in 1..Len(d) : \A j \in 1..Len(d) : ~RatLess(d[i][2], d[j][2])})][1]

\* for i in range(3): ... the tally of the weighted vote and the raw scores kept
\* for the fallback (final_answers[i + 1] is the list entry of agent i)
RECURSIVE VoteLoop(_, _, _, _, _)
VoteLoop(i, finals, scores, unique_answers, raw_scores_map) ==
    IF i >= NumAgents
    THEN [unique_answers |-> unique_answers, raw_scores_map |-> raw_scores_map]
    ELSE LET ans == finals[i + 1].answer
             raw_avg == RawAvg(scores[i])
             raw2 == DictSet(raw_scores_map, ans,
                             RawScoreUpdate(DictGet(raw_scores_map, ans, <<0, 1>>), raw_avg))
         IN  IF ans = ErrorVal
             THEN VoteLoop(i + 1, finals, scores, unique_answers, raw_scores_map)
             ELSE IF ~PassesGate(raw_avg)
             THEN VoteLoop(i + 1, finals, scores, unique_answers, raw2)
             ELSE VoteLoop(i + 1, finals, scores,
                           DictSet(unique_answers, ans,
                                   DictGet(unique_answers, ans, 0) + Weight(NormScore(raw_avg))),
                           raw2)

\* Select Winner, and the record stored in results[question]
QuestionRecord(finals, scores) ==
    LET tally == VoteLoop(0, finals, scores, <<>>, <<>>)
        unique_answers == tally.unique_answers
        raw_scores_map == tally.raw_scores_map
        best_ans == IF unique_answers # <<>> THEN DictMaxKey(unique_answers)
                    ELSE IF raw_scores_map # <<>> THEN RatDictMaxKey(raw_scores_map)
                    ELSE ErrorVal
    IN  [final_decision |-> best_ans,
         fallback_triggered |-> (unique_answers = <<>>),
         round_2_scores |-> scores,
         round_3_finals |-> finals,
         voting_weights |-> unique_answers]

\* Variant of ApplyReviews: the score is filed under the position of the label
\* among the candidates, not under the agent the label stands for.
RECURSIVE ApplyReviewsByPosition(_, _, _, _)
ApplyReviewsByPosition(reviews, k, map, scores) ==
    IF k > Len(reviews) THEN scores
    ELSE LET label == reviews[k].candidate
             score == reviews[k].final_score
             position == {n \in 1..Len(labels) : labels[n] = label}
         IN  IF DictHas(map, label)
             THEN ApplyReviewsByPosition(reviews, k + 1, map,
                      [scores EXCEPT ![(CHOOSE n \in position : TRUE) - 1] = Append(@, score)])
             ELSE ApplyReviewsByPosition(reviews, k + 1, map, scores)

\* for review in reviews: if label in mapping: scores_map[mapping[label]].append(score)
RECURSIVE ApplyReviews(_, _, _, _)
ApplyReviews(reviews, k, map, scores) ==
    IF k > Len(reviews) THEN scores
    ELSE LET label == reviews[k].candidate
             score == reviews[k].final_score
         IN  IF DictHas(map, label)
             THEN LET orig_idx == DictGet(map, label, 0)
                  IN  ApplyReviews(reviews, k + 1, map,
                                   [scores EXCEPT ![orig_idx] = Append(@, score)])
             ELSE ApplyReviews(reviews, k + 1, map, scores)

\* What a judge's parsed output can hold: reviews of the candidates A, B, C or
\* of a label that is none of them.
JudgeScores == {3, 5}
Review == [candidate : {"A", "B", "C", "D"}, final_score : JudgeScores]
MaxReviews == 1
RECURSIVE ReviewLists(_)
ReviewLists(n) ==
    IF n = 0 THEN {<<>>}
    ELSE ReviewLists(n - 1) \cup
         {Append(l, r) : l \in {x \in ReviewLists(n - 1) : Len(x) = n - 1}, r \in Review}

Permutations3 ==
    {p \in [1..NumAgents -> Agents] : \A a \in Agents : \E k \in 1..NumAgents : p[k] = a}

InitGen ==
    /\ pc = "shuffle"
    /\ mapping = <<>>
    /\ judge = 0
    /\ scores_map = [i \in Agents |-> <<>>]
    /\ final_answers = <<>>
    /\ results = <<>>
    /\ IdleExtract
    /\ IdleVote
    /\ IdleRest

\* random.shuffle(shuffled_indices); mapping[labels[idx]] = original_idx
Shuffle(shuffled_indices) ==
    /\ pc = "shuffle"
    /\ mapping' = <<<<labels[1], shuffled_indices[1]>>,
                    <<labels[2], shuffled_indices[2]>>,
                    <<labels[3], shuffled_indices[3]>>>>
    /\ pc' = "review"
    /\ UNCHANGED <<judge, scores_map, final_answers, results,
                   text, npieces, extracted, final_round_results, decisions,
                   restVars>>

\* One of the three judges reviews the candidates; its scores are filed.
JudgeReview(reviews) ==
    /\ pc = "review"
    /\ judge < NumAgents
    /\ scores_map' = ApplyReviews(reviews, 1, mapping, scores_map)
    /\ judge' = judge + 1
    /\ pc' = IF judge + 1 = NumAgents THEN "round3" ELSE "review"
    /\ UNCHANGED <<mapping, final_answers, results,
                   text, npieces, extracted, final_round_results, decisions,
                   restVars>>

\* Round 3, the weighted vote and the record of the question.
CorrectAndVote(final_resp) ==
    /\ pc = "round3"
    /\ LET finals == <<[answer |-> extract_boxed_answer(final_resp[0]),
                        full_text |-> final_resp[0], original_idx |-> 0],
                       [answer |-> extract_boxed_answer(final_resp[1]),
                        full_text |-> final_resp[1], original_idx |-> 1],
                       [answer |-> extract_boxed_answer(final_resp[2]),
                        full_text |-> final_resp[2], original_idx |-> 2]>>
       IN  /\ final_answers' = finals
           /\ results' = <<QuestionRecord(finals, scores_map)>>
    /\ pc' = "done"
    /\ UNCHANGED <<mapping, judge, scores_map,
                   text, npieces, extracted, final_round_results, decisions,
                   restVars>>

NextGen ==
    \/ \E p \in Permutations3 : Shuffle(p)
    \/ \E reviews \in ReviewLists(MaxReviews) : JudgeReview(reviews)
    \/ \E final_resp \in [Agents -> Responses] : CorrectAndVote(final_resp)

SpecGen == InitGen /\ [][NextGen]_vars

\* The two weighted votes side by side.
Spec == (InitVote \/ InitGen) /\ [][NextVote \/ NextGen]_vars

-----------------------------------------------------------------------------
(* Scorers: ground truth against decision *)

\* What float() returns: the exact value <<numerator, denominator>> of the
\* literal, or NotFloat when float() raises ValueError.
NotFloat == <<>>
DigitValue(c) ==
    CHOOSE v \in 0..9 : <<"0", "1", "2", "3", "4", "5", "6", "7", "8", "9">>[v + 1] = c
RECURSIVE IntOf(_)
IntOf(q) ==
    IF q = <<>> THEN 0
    ELSE IntOf(SubSeq(q, 1, Len(q) - 1)) * 10 + DigitValue(q[Len(q)])
RECURSIVE Pow10(_)
Pow10(n) == IF n = 0 THEN 1 ELSE 10 * Pow10(n - 1)

\* float(x) of a str: blanks around are dropped, then an optional sign, digits
\* with at most one '.', and at least one digit.
float(x) ==
    LET s == Strip(x)
        signed == s # <<>> /\ IsSign(s[1])
        u == IF signed THEN Tail(s) ELSE s
        dots == {k \in 1..Len(u) : u[k] = "."}
        digits == SelectSeq(u, IsDigit)
    IN  IF /\ \A k \in 1..Len(u) : IsDigit(u[k]) \/ u[k] = "."
           /\ Cardinality(dots) <= 1
           /\ digits # <<>>
        THEN <<(IF signed /\ s[1] = "-" THEN 0 - IntOf(digits) ELSE IntOf(digits)),
               Pow10(IF dots = {} THEN 0 ELSE Len(u) - (CHOOSE k \in dots : TRUE))>>
        ELSE NotFloat

Abs(n) == IF n < 0 THEN 0 - n ELSE n
FloatEq(a, b) == a[1] * b[2] = b[1] * a[2]
\* np.isclose(a, b, rtol=1e-05, atol): |a - b| <= atol + rtol * |b|, with atol
\* given in units of 1e-8; both sides multiplied by 1e8 * a[2] * b[2].
IsClose(a, b, atol) ==
    LET diff == Abs(a[1] * b[2] - b[1] * a[2])
    IN  /\ diff <= 21
        /\ diff * 100000000 <= a[2] * b[2] * atol + 1000 * Abs(b[1]) * a[2]

\* str.replace(",", "")
RemoveCommas(q) == SelectSeq(q, LAMBDA c : c # ",")

\* "####" in str(ground_truth)
MatchHashesLiteral(s, i) ==
    IF At(s, i, "#") /\ At(s, i + 1, "#") /\ At(s, i + 2, "#") /\ At(s, i + 3, "#")
    THEN <<i, i + 4, i + 4>> ELSE NoMatch

\* #### (\d+\.?\d*)
MatchGtPattern(s, i) ==
    IF /\ At(s, i, "#") /\ At(s, i + 1, "#") /\ At(s, i + 2, "#") /\ At(s, i + 3, "#")
       /\ At(s, i + 4, " ")
    THEN LET m == MatchNumber(s, i + 5)
         IN  IF m = NoMatch THEN NoMatch ELSE <<i + 5, m[2], m[3]>>
    ELSE NoMatch

\* get_ground_truth of compare_accuracies.py
get_ground_truth(gt) ==
    LET gt_match == Search(gt, MatchGtPattern)
    IN  IF gt_match = NoneVal
        THEN LET gt_fallback == FindAll(gt, MatchNumber)
             IN  IF gt_fallback # <<>> THEN Last(gt_fallback) ELSE NoneVal
        ELSE gt_match

\* check_correctness of compare_accuracies.py
check_correctness(gt_answer, final_pred_answer) ==
    IF gt_answer = NoneVal \/ final_pred_answer = NoneVal THEN "0"
    ELSE IF float(gt_answer) # NotFloat /\ float(final_pred_answer) # NotFloat
    THEN (IF IsClose(float(gt_answer), float(final_pred_answer), 1) THEN "1" ELSE "0")
    ELSE LET gt_clean == float(RemoveCommas(gt_answer))
             pred_clean == float(RemoveCommas(final_pred_answer))
         IN  IF gt_clean # NotFloat /\ pred_clean # NotFloat
             THEN (IF IsClose(gt_clean, pred_clean, 1) THEN "1" ELSE "0")
             ELSE "0"

\* normalize_number of v3.7/compare_accuracies_3_7.py: NoneVal, the float, or
\* the cleaned string
normalize_number(num_str) ==
    IF num_str = NoneVal \/ num_str = <<>> THEN NoneVal
    ELSE Strip(RemoveCommas(num_str))

\* is_correct of v3.7/compare_accuracies_3_7.py
is_correct_3_7(pred, gt) ==
    LET pred_norm == normalize_number(pred)
        gt_norm == normalize_number(gt)
    IN  IF pred_norm = NoneVal \/ gt_norm = NoneVal THEN "False"
        ELSE IF float(pred_norm) # NotFloat /\ float(gt_norm) # NotFloat
        THEN (IF IsClose(float(pred_norm), float(gt_norm), 1000) THEN "True" ELSE "False")
        ELSE IF float(pred_norm) = NotFloat /\ float(gt_norm) = NotFloat
        THEN (IF pred_norm = gt_norm THEN "True" ELSE "False")
        ELSE "False"

\* The text after the last "####" that str.split("####") cuts at, scanning from
\* position i with the last cut ending before position start.
RECURSIVE AfterLastHashes(_, _, _)
AfterLastHashes(s, i, start) ==
    IF i > Len(s) THEN SubSeq(s, start, Len(s))
    ELSE IF At(s, i, "#") /\ At(s, i + 1, "#") /\ At(s, i + 2, "#") /\ At(s, i + 3, "#")
    THEN AfterLastHashes(s, i + 4, i + 4)
    ELSE AfterLastHashes(s, i + 1, start)

\* if "####" in str(ground_truth): ground_truth = str(ground_truth).split("####")[-1].strip()
SplitGroundTruth(gt) ==
    IF Search(gt, MatchHashesLiteral) # NoneVal
    THEN Strip(AfterLastHashes(gt, 1, 1)) ELSE gt

\* str(x): None is spelled out
Str(x) == IF x = NoneVal THEN <<"N", "o", "n", "e">> ELSE x

\* analyze_results of v3.7/compare_accuracies_3_7.py, for one record
score_3_7(gt, final_decision) == is_correct_3_7(final_decision, SplitGroundTruth(gt))

\* check_correctness of v3.7/eval_gsm_3_7_detailed.py, called as in __main__
check_correctness_detailed(gt, pred_solution) ==
    LET gt_answer == solve_math_problems(Str(SplitGroundTruth(gt)))
        pred_answer == parse_answer_detailed(Str(pred_solution))
    IN  IF gt_answer = NoneVal \/ pred_answer = NoneVal THEN "0"
        ELSE IF float(gt_answer) = NotFloat \/ float(pred_answer) = NotFloat THEN "0"
        ELSE IF FloatEq(float(gt_answer), float(pred_answer)) THEN "1" ELSE "0"

\* compute_accuracy of filter_gsm_hard.py on a single response (not a list)
compute_accuracy_filter(gt, pred_solution) ==
    LET answers == solve_math_problems(gt)
        parsed == parse_answer_filter(pred_solution)
        pred_answer == IF parsed = NoneVal THEN solve_math_problems(pred_solution)
                       ELSE parsed
    IN  IF answers = NoneVal THEN "None"
        ELSE IF pred_solution = NoneVal THEN "TypeError"
        ELSE IF pred_answer = NoneVal THEN "0"
        ELSE IF float(answers) = NotFloat \/ float(pred_answer) = NotFloat
        THEN "ValueError"
        ELSE IF FloatEq(float(answers), float(pred_answer)) THEN "1" ELSE "0"

\* is_correct of analyze_results.py
is_correct(gt, pred) ==
    IF pred = NoneVal THEN "False"
    ELSE LET gt_match == Search(gt, MatchGtPattern)
         IN  IF gt_match = NoneVal THEN "False"
             ELSE IF float(gt_match) = NotFloat \/ float(pred) = NotFloat THEN "False"
             ELSE IF FloatEq(float(gt_match), float(pred)) THEN "True" ELSE "False"

\* The ground truths of the data set and of damaged records, and the decisions
\* an extractor or a vote can hand to a scorer.
GroundTruths ==
    { <<"#", "#", "#", "#", " ", "1", ",", "2", "0", "0">>,
      <<"#", "#", "#", "#", " ", "1", "2", "0", "0">>,
      <<"#", "#", "#", "#", " ", "5">>,
      <<"#", "#", "#", "#", " ", "7", ".", "5">>,
      <<"#", "#", "#", "#", " ", "1", "2">>,
      <<"1", ",", "2", "0", "0">>,
      <<"a">>,
      <<"#", "#", "#", "#", " ", ".">>,
      <<"#", "#", "#", "#", " ", "a">>,
      <<"#", "#", "#", "#", " ", "1", "0", "0", "0", "0", "0">>,
      <<"#", "#", "#", "#", " ", "9", "9", "9", "9", "9">>,
      <<>> }
Predictions ==
    { NoneVal,
      <<"1", "2", "0", "0">>,
      <<"1", ",", "2", "0", "0">>,
      <<"5">>,
      <<"5", ".", "0">>,
      <<"7", ".", "5">>,
      <<"1", "2">>,
      <<"1", "0", "0", "0", "0", "1">>,
      <<"1", "0", "0", "0", "0", "0">>,
      <<"9", "9", "9", "9", "9">>,
      <<".">>,
      <<"1", ".", "2", ".", "3">>,
      <<>>,
      <<"a">>,
      Marker(<<"1", ".", "2", ".", "3">>),
      Marker(<<"1", ",", "2", "0", "0">>) }

InitScore ==
    /\ pc = "score"
    /\ ground_truth \in GroundTruths
    /\ prediction \in Predictions
    /\ verdict = NoVerdict
    /\ IdleExtract
    /\ IdleVote
    /\ IdleGen
    /\ IdleAnalysis
    /\ IdleRun
    /\ IdleDebate
    /\ IdleReview
    /\ IdleRepair

\* Every scorer of the repository is run on the pair.
Score ==
    /\ pc = "score"
    /\ pc' = "scored"
    /\ verdict' =
        [check_correctness |-> check_correctness(get_ground_truth(ground_truth), prediction),
         is_correct_3_7 |-> score_3_7(ground_truth, prediction),
         check_correctness_detailed |-> check_correctness_detailed(ground_truth, prediction),
         compute_accuracy_filter |-> compute_accuracy_filter(ground_truth, prediction),
         is_correct |-> is_correct(ground_truth, prediction)]
    /\ UNCHANGED <<ground_truth, prediction, extractVars, voteVars, genVars,
                   analysisVars, runVars, debateVars, reviewVars, repairVars>>

NextScore == Score

SpecScore == InitScore /\ [][NextScore]_vars

-----------------------------------------------------------------------------
(* Analysis scripts: one pass over a persisted result mapping *)

\* A key the entry does not have.
Missing == <<"missing">>

\* The entries of a result file: well formed (the ground truth may hold no
\* number), without "ground_truth", with an item without "solution", with
\* fewer than four rounds, with a round of fewer than three agents.
Entries ==
    [ground_truth : {<<"#", "#", "#", "#", " ", "5">>, <<"a">>},
     solution : {Marker(<<"5">>), Marker(<<"7">>)}, shape : {"full"}]
    \cup
    { [ground_truth |-> Missing, solution |-> Marker(<<"5">>), shape |-> "full"],
      [ground_truth |-> <<"#", "#", "#", "#", " ", "5">>, solution |-> Missing,
       shape |-> "full"],
      [ground_truth |-> <<"#", "#", "#", "#", " ", "5">>, solution |-> Marker(<<"5">>),
       shape |-> "short_rounds"],
      [ground_truth |-> <<"#", "#", "#", "#", " ", "5">>, solution |-> Marker(<<"5">>),
       shape |-> "short_agents"] }

\* compute_accuracy of legacy/eval_math_critic_actor.py
legacy_compute_accuracy(gt, pred_solutions) ==
    LET gt_answer == Search(gt, MatchGtPattern)
        final_pred_answer == legacy_vote(pred_solutions)
    IN  IF gt_answer = NoneVal THEN "None"
        ELSE IF final_pred_answer = NoneVal THEN "0"
        ELSE IF float(gt_answer) = NotFloat \/ float(final_pred_answer) = NotFloat THEN "0"
        ELSE IF FloatEq(float(gt_answer), float(final_pred_answer)) THEN "1" ELSE "0"

\* What each script does with one entry: "1" or "0" (scored), "None" (left
\* out), "skip" (passed over), or the exception that ends the script.
\* __main__ of legacy/eval_math_critic_actor.py
LegacyEntry(data) ==
    IF data.ground_truth = Missing \/ data.solution = Missing THEN "KeyError"
    ELSE legacy_compute_accuracy(data.ground_truth, <<data.solution>>)

\* get_critic_actor_data of compare_accuracies.py: is_correct of the entry
CriticActorEntry(data) ==
    IF data.ground_truth = Missing \/ data.solution = Missing THEN "KeyError"
    ELSE check_correctness(get_ground_truth(data.ground_truth),
                           get_final_decision(<<data.solution>>))

\* __main__ of v3.7/eval_gsm_3_7_detailed.py: the final decision of the entry
Detailed37Entry(data) ==
    IF data.ground_truth = Missing THEN "KeyError"
    ELSE check_correctness_detailed(data.ground_truth,
             IF data.solution = Missing THEN NoneVal ELSE data.solution)

\* __main__ of v3.6/eval_gsm_3_6_detailed.py
Detailed36Entry(data) ==
    IF data.ground_truth = Missing THEN "KeyError"
    ELSE IF data.shape = "short_rounds" THEN "skip"
    ELSE IF data.shape = "short_agents" THEN "IndexError"
    ELSE check_correctness_detailed(data.ground_truth,
             IF data.solution = Missing THEN <<>> ELSE data.solution)

\* analyze_results of analyze_results.py
AnalyzeEntry(details) ==
    IF details.ground_truth = Missing \/ details.solution = Missing THEN "KeyError"
    ELSE IF is_correct(details.ground_truth, parse_answer(details.solution)) = "True"
    THEN "1" ELSE "0"

Raised(outcome) == outcome \in {"KeyError", "IndexError"}

\* The loop over the questions: it stops at the first entry that raises.
\* outcomes[k] is what the script does with entry k; total is TRUE when the
\* script divides by the number of questions in the file.
RunScript(outcomes, total) ==
    LET crash == {k \in 1..Len(outcomes) : Raised(outcomes[k])}
        seen == IF crash = {} THEN 1..Len(outcomes) ELSE 1..(MinOf(crash) - 1)
    IN  [status |-> IF crash = {} THEN "done" ELSE outcomes[MinOf(crash)],
         correct |-> Cardinality({k \in seen : outcomes[k] = "1"}),
         denominator |-> IF total THEN Len(outcomes)
                         ELSE Cardinality({k \in seen : outcomes[k] \in {"0", "1"}})]

\* Variant of Categorize: a question both runs got wrong is filed under loss.
CategorizeBothWrongAsLoss(a_correct, b_correct) ==
    IF b_correct = "1" /\ a_correct = "0" THEN "win"
    ELSE IF b_correct = "0" THEN "loss"
    ELSE IF b_correct = "1" /\ a_correct = "1" THEN "correct"
    ELSE "none"

\* The if / elif chain of compare_accuracies.main
Categorize(a_correct, b_correct) ==
    IF b_correct = "1" /\ a_correct = "0" THEN "win"
    ELSE IF b_correct = "0" /\ a_correct = "1" THEN "loss"
    ELSE IF b_correct = "1" /\ a_correct = "1" THEN "correct"
    ELSE IF b_correct = "0" /\ a_correct = "0" THEN "incorrect"
    ELSE "none"

\* get_majority_error_data: "is_correct": 0 for every question of the baseline
OriginalIsCorrect(question) == "0"

\* compare_accuracies.main once get_critic_actor_data has scored the entries
\* (outcomes[k] for entry k, whose question is k) or raised.
CompareOutcomes(outcomes, original) ==
    LET extraction == RunScript(outcomes, TRUE)
        common_questions == original \cap (1..Len(outcomes))
        In(c) == {q \in common_questions :
                     Categorize(OriginalIsCorrect(q), outcomes[q]) = c}
    IN  IF extraction.status # "done"
        THEN [run |-> extraction,
              categories |-> [win |-> {}, loss |-> {}, correct |-> {}, incorrect |-> {}],
              printed |-> [total_questions |-> 0]]
        ELSE IF common_questions = {}
        THEN [run |-> extraction,
              categories |-> [win |-> {}, loss |-> {}, correct |-> {}, incorrect |-> {}],
              printed |-> [original_questions |-> Cardinality(original),
                           critic_questions |-> Len(outcomes)]]
        ELSE [run |-> [extraction EXCEPT !.denominator = Cardinality(common_questions),
                                        !.correct = Cardinality(In("win") \cup In("correct"))],
              categories |-> [win |-> In("win"), loss |-> In("loss"),
                              correct |-> In("correct"), incorrect |-> In("incorrect")],
              printed |-> [total_questions |-> Cardinality(common_questions),
                           win |-> Cardinality(In("win")),
                           loss |-> Cardinality(In("loss")),
                           correct |-> Cardinality(In("correct")),
                           incorrect |-> Cardinality(In("incorrect"))]]

\* compare_accuracies.main from the extraction of the data to the summary
CompareMain(dict, original) ==
    CompareOutcomes([k \in 1..Len(dict) |-> CriticActorEntry(dict[k])], original)

\* What the five scripts computed.
AnalysisReport(legacy, cmp, detailed_3_7, detailed_3_6, analyze) ==
    [legacy |-> legacy, compare |-> cmp.run, detailed_3_7 |-> detailed_3_7,
     detailed_3_6 |-> detailed_3_6, analyze_results |-> analyze,
     categories |-> cmp.categories, printed |-> cmp.printed]

MaxEntries == 2

InitAnalysis ==
    /\ pc = "load"
    /\ IdleAnalysis
    /\ IdleScore
    /\ IdleRun
    /\ IdleDebate
    /\ IdleReview
    /\ IdleRepair
    /\ IdleExtract
    /\ IdleVote
    /\ IdleGen

\* One more question is in the result file.
AddEntry(data) ==
    /\ pc = "load"
    /\ Len(response_dict) < MaxEntries
    /\ response_dict' = Append(response_dict, data)
    /\ UNCHANGED <<pc, original_questions, report,
                   extractVars, voteVars, genVars, scoreVars, runVars, debateVars, reviewVars, repairVars>>

\* Every analysis script is run on the file; compare_accuracies also reads the
\* baseline file.
Analyse(original) ==
    /\ pc = "load"
    /\ pc' = "analysed"
    /\ original_questions' = original
    /\ LET n == Len(response_dict)
       IN  report' = AnalysisReport(
              RunScript([k \in 1..n |-> LegacyEntry(response_dict[k])], FALSE),
              CompareMain(response_dict, original),
              RunScript([k \in 1..n |-> Detailed37Entry(response_dict[k])], TRUE),
              RunScript([k \in 1..n |-> Detailed36Entry(response_dict[k])], TRUE),
              RunScript([k \in 1..n |-> AnalyzeEntry(response_dict[k])], TRUE))
    /\ UNCHANGED <<response_dict, extractVars, voteVars, genVars, scoreVars, runVars, debateVars, reviewVars, repairVars>>

NextAnalysis ==
    \/ \E data \in Entries : AddEntry(data)
    \/ \E original \in SUBSET (1..(MaxEntries + 1)) : Analyse(original)

SpecAnalysis == InitAnalysis /\ [][NextAnalysis]_vars

-----------------------------------------------------------------------------
(* Generation scripts: the loop over the questions of the data file, the   *)
(* model calls of each question and the output file.  A record holds the   *)
(* text of the last response (content), the number of model calls that     *)
(* were answered for it (calls) and the Python container it is kept in.    *)

Scripts ==
    {"gen_gsm_scot", "gen_gsm-scot", "gen_gsm_confidence_seperate", "gen_gsm_group",
     "gen_gsm_confiscore", "gen_math_critic_actor_3_7"}

\* The scripts that load the output file when they start and write it after
\* every question.
Resumable(s) ==
    s \in {"gen_gsm_scot", "gen_gsm-scot", "gen_gsm_confidence_seperate",
           "gen_gsm_group"}

scot_agents == 5
scot_rounds == 4
confiscore_agents == 3
confiscore_rounds == 4
group_M == 6
group_sizes == <<2, 2, 2>>
group_S == 2
group_R == 2

\* The model calls of one question (gen_gsm_confiscore: of one debate that is
\* neither stopped early nor restarted).
CallsPerQuestion(s) ==
    CASE s = "gen_gsm_scot" -> 1
      [] s = "gen_gsm_confidence_seperate" -> 1
      [] s = "gen_gsm-scot" -> scot_rounds * scot_agents
      [] s = "gen_gsm_group" ->
            group_S * (group_M + (group_R - 1) * (Len(group_sizes) + group_M)
                       + Len(group_sizes))
      [] s = "gen_math_critic_actor_3_7" -> 3 + 3 + 3
      [] s = "gen_gsm_confiscore" -> confiscore_rounds * (2 * confiscore_agents)

\* How a round of gen_gsm_confiscore ends: the high-confidence consensus
\* (break), every score low (round_idx = 0), or the next round.
RoundOutcomes == {"early_stop", "restart", "normal"}

\* The n-th call is the last of its round (gen_gsm_confiscore) or of its
\* question, the only calls after which a script looks at the responses.
EndsRound(s, n) ==
    IF s = "gen_gsm_confiscore" THEN n % (2 * confiscore_agents) = 0
    ELSE n = CallsPerQuestion(s)

\* Where the question stands once n calls were answered.
Progress(s, n, outcome) ==
    IF s # "gen_gsm_confiscore"
    THEN [done |-> n = CallsPerQuestion(s), calls |-> n]
    ELSE IF n % (2 * confiscore_agents) # 0 THEN [done |-> FALSE, calls |-> n]
    ELSE IF outcome = "early_stop" THEN [done |-> TRUE, calls |-> n]
    ELSE IF outcome = "restart" THEN [done |-> FALSE, calls |-> 0]
    ELSE [done |-> n = CallsPerQuestion(s), calls |-> n]

\* The value stored under the question.
Record(s, content, n) ==
    [container |-> CASE s = "gen_gsm_group" -> "list"
                     [] s = "gen_math_critic_actor_3_7" -> "dict"
                     [] OTHER -> "tuple",
     content |-> content, calls |-> n]

\* json.dump: a tuple is written as a list.
json_dump(d) ==
    [exists |-> TRUE,
     data |-> [k \in 1..Len(d) |->
                  <<d[k][1], [d[k][2] EXCEPT !.container =
                                 IF @ = "tuple" THEN "list" ELSE @]>>]]

\* Variant of AlreadyDone: no question counts as done.
NeverDone(question, d) == FALSE

\* if question in generated_description: continue
AlreadyDone(question, d) == DictHas(d, question)

Skips == Resumable(script) /\ AlreadyDone(questions[idx], generated_description)

MaxQuestions == 2
MaxRuns == 2
Contents == {"x", "y"}
QuestionLists == UNION {[1..n -> QuestionIds] : n \in 0..MaxQuestions}

InitRun ==
    /\ pc = "run_start"
    /\ script \in Scripts
    /\ questions \in QuestionLists
    /\ output_file = NoFile
    /\ generated_description = <<>>
    /\ idx = 0
    /\ calls = 0
    /\ runs = 0
    /\ events = NoEvents
    /\ IdleExtract
    /\ IdleVote
    /\ IdleGen
    /\ IdleScore
    /\ IdleAnalysis
    /\ IdleDebate
    /\ IdleReview
    /\ IdleRepair

\* The script is started, for the first time or again after it ended.
Start ==
    /\ pc \in {"run_start", "run_raised", "run_completed"}
    /\ runs < MaxRuns
    /\ runs' = runs + 1
    /\ pc' = "run_loop"
    /\ idx' = 1
    /\ calls' = 0
    /\ IF Resumable(script)
       THEN IF output_file.exists
            THEN /\ generated_description' = output_file.data
                 /\ UNCHANGED output_file
            ELSE /\ generated_description' = <<>>
                 /\ output_file' = json_dump(<<>>)
       ELSE /\ generated_description' = <<>>
            /\ UNCHANGED output_file
    /\ UNCHANGED <<script, questions, events,
                   extractVars, voteVars, genVars, scoreVars, analysisVars, debateVars, reviewVars, repairVars>>

\* The question has a record already.
Skip ==
    /\ pc = "run_loop"
    /\ idx <= Len(questions)
    /\ Skips
    /\ idx' = idx + 1
    /\ events' = [events EXCEPT !.skipped = TRUE]
    /\ UNCHANGED <<pc, script, questions, output_file, generated_description, calls,
                   runs, extractVars, voteVars, genVars, scoreVars, analysisVars, debateVars, reviewVars, repairVars>>

\* One more call of the question is answered with content; after the last one
\* the record is stored, and written at once by the resumable scripts.
CallAnswered(outcome, content) ==
    LET question == questions[idx]
        p == Progress(script, calls + 1, outcome)
        stored == DictSet(generated_description, question,
                          Record(script, content, calls + 1))
    IN  IF p.done
        THEN /\ generated_description' = stored
             /\ output_file' = IF Resumable(script) THEN json_dump(stored)
                               ELSE output_file
             /\ idx' = idx + 1
             /\ calls' = 0
             /\ events' = [events EXCEPT !.generated[question] =
                                              IF @ < 2 THEN @ + 1 ELSE @]
        ELSE /\ calls' = p.calls
             /\ UNCHANGED <<generated_description, output_file, idx, events>>

\* A call that is not the last of its round is answered.
Call ==
    /\ pc = "run_loop"
    /\ idx <= Len(questions)
    /\ ~Skips
    /\ ~EndsRound(script, calls + 1)
    /\ calls' = calls + 1
    /\ UNCHANGED <<pc, script, questions, output_file, generated_description, idx,
                   runs, events, extractVars, voteVars, genVars, scoreVars,
                   analysisVars, debateVars, reviewVars, repairVars>>

\* The last call of a round is answered.
LastCall(outcome, content) ==
    /\ pc = "run_loop"
    /\ idx <= Len(questions)
    /\ ~Skips
    /\ EndsRound(script, calls + 1)
    /\ CallAnswered(outcome, content)
    /\ UNCHANGED <<pc, script, questions, runs,
                   extractVars, voteVars, genVars, scoreVars, analysisVars, debateVars, reviewVars, repairVars>>

\* The model call raises.  call_openai_api of gen_math_critic_actor_3_7
\* answers "" instead; the handler of a resumable script writes the file and
\* raises again; gen_gsm_confiscore has no handler.
CallFails ==
    /\ pc = "run_loop"
    /\ idx <= Len(questions)
    /\ ~Skips
    /\ IF script = "gen_math_critic_actor_3_7"
       THEN /\ CallAnswered("normal", "")
            /\ UNCHANGED pc
       ELSE /\ pc' = "run_raised"
            /\ output_file' = IF Resumable(script) THEN json_dump(generated_description)
                              ELSE output_file
            /\ events' = [events EXCEPT !.failed = TRUE]
            /\ UNCHANGED <<generated_description, idx, calls>>
    /\ UNCHANGED <<script, questions, runs,
                   extractVars, voteVars, genVars, scoreVars, analysisVars, debateVars, reviewVars, repairVars>>

\* The loop is over; gen_gsm_confiscore and gen_math_critic_actor_3_7 write
\* the file now.
Finish ==
    /\ pc = "run_loop"
    /\ idx > Len(questions)
    /\ pc' = "run_completed"
    /\ output_file' = IF Resumable(script) THEN output_file
                      ELSE json_dump(generated_description)
    /\ UNCHANGED <<script, questions, generated_description, idx, calls, runs, events,
                   extractVars, voteVars, genVars, scoreVars, analysisVars, debateVars, reviewVars, repairVars>>

NextRun ==
    \/ Start
    \/ Skip
    \/ Call
    \/ \E outcome \in RoundOutcomes, content \in Contents : LastCall(outcome, content)
    \/ CallFails
    \/ Finish

SpecRun == InitRun /\ [][NextRun]_vars

-----------------------------------------------------------------------------
(* The debate of one question in gen_gsm.py and gen_gsm-scot.py.            *)
(*                                                                          *)
(* A message is a record: role, the responses it quotes (in the order of    *)
(* the agents quoted) and, for an assistant message, the response it holds. *)
(* A response is named by the agent that gave it and the round it was given *)
(* in, <<agent, round>>; agents are numbered from 1 where the scripts count *)
(* them from 0.                                                             *)

DebateScripts == {"gen_gsm", "gen_gsm-scot"}

MaxDebateAgents == 4
MaxDebateRounds == 4

NoAnswer == <<>>

system_message == [role |-> "system", quotes |-> <<>>, response |-> NoAnswer]
first_user_message == [role |-> "user", quotes |-> <<>>, response |-> NoAnswer]

\* agent_contexts = [[system, user] for agent in range(agents)]   (gen_gsm)
\* agent_contexts = [[user] for agent in range(agents)]           (gen_gsm-scot)
InitialContext(s) ==
    IF s = "gen_gsm" THEN <<system_message, first_user_message>>
    ELSE <<first_user_message>>

\* agent_contexts[:i] + agent_contexts[i+1:]
agent_contexts_other(contexts, i) ==
    SubSeq(contexts, 1, i - 1) \o SubSeq(contexts, i + 1, Len(contexts))

\* gen_gsm.construct_message: agent[idx]["content"] of every other agent
\* (the message at Python index idx is the one at position idx + 1).
gsm_construct_message(agents, index) ==
    [role |-> "user",
     quotes |-> [k \in 1..Len(agents) |-> agents[k][index + 1].response],
     response |-> NoAnswer]

\* next((m["content"] for m in reversed(agent) if m["role"] == "assistant"),
\*      "(no answer)")
last_assistant(agent) ==
    LET at == {k \in 1..Len(agent) : agent[k].role = "assistant"}
    IN  IF at = {} THEN NoAnswer ELSE agent[MaxOf(at)].response

\* gen_gsm-scot.construct_message
scot_construct_message(agents) ==
    [role |-> "user",
     quotes |-> [k \in 1..Len(agents) |-> last_assistant(agents[k])],
     response |-> NoAnswer]

construct_assistant_message(i, round) ==
    [role |-> "assistant", quotes |-> <<>>, response |-> <<i, round>>]

InitDebate ==
    /\ pc = "debate"
    /\ script \in DebateScripts
    /\ rounds \in 1..MaxDebateRounds
    /\ \E agents \in 1..MaxDebateAgents :
           agent_contexts = [i \in 1..agents |-> InitialContext(script)]
    /\ round_idx = 0
    /\ agent_i = 1
    /\ this_round = NoRound
    /\ config = NoConfig
    /\ all_rounds_results = <<>>
    /\ questions = <<>>
    /\ output_file = NoFile
    /\ generated_description = <<>>
    /\ idx = 0
    /\ calls = 0
    /\ runs = 0
    /\ events = NoEvents
    /\ IdleExtract
    /\ IdleVote
    /\ IdleGen
    /\ IdleScore
    /\ IdleAnalysis
    /\ IdleReview
    /\ IdleRepair

debateFrame == <<script, rounds, this_round, config, all_rounds_results, reviewVars,
                 repairVars, questions, output_file,
                 generated_description, idx, calls, runs, events, extractVars,
                 voteVars, genVars, scoreVars, analysisVars>>

\* gen_gsm, one pass of "for i, agent_context in enumerate(agent_contexts)":
\* the prompt of agent i is built and appended (from round 1 on); no model is
\* called yet.
BuildPrompt ==
    /\ pc = "debate"
    /\ script = "gen_gsm"
    /\ round_idx < rounds
    /\ agent_i <= Len(agent_contexts)
    /\ agent_contexts' =
           IF round_idx # 0
           THEN [agent_contexts EXCEPT ![agent_i] =
                    Append(@, gsm_construct_message(
                                  agent_contexts_other(agent_contexts, agent_i),
                                  2 * round_idx))]
           ELSE agent_contexts
    /\ agent_i' = agent_i + 1
    /\ UNCHANGED <<pc, round_idx, debateFrame>>

\* gen_gsm, outputs = llm.generate(prompts): every agent of the round answers
\* and the answers are appended together.
Generate ==
    /\ pc = "debate"
    /\ script = "gen_gsm"
    /\ round_idx < rounds
    /\ agent_i > Len(agent_contexts)
    /\ agent_contexts' = [i \in 1..Len(agent_contexts) |->
                             Append(agent_contexts[i],
                                    construct_assistant_message(i, round_idx))]
    /\ round_idx' = round_idx + 1
    /\ agent_i' = 1
    /\ UNCHANGED <<pc, debateFrame>>

\* gen_gsm-scot, one pass of the loop over the agents: the prompt of agent i is
\* built and appended (from round 1 on), the model is called and its answer
\* appended, before the next agent's prompt is built.
AgentTurn ==
    /\ pc = "debate"
    /\ script = "gen_gsm-scot"
    /\ round_idx < rounds
    /\ LET prompted ==
               IF round_idx # 0
               THEN Append(agent_contexts[agent_i],
                           scot_construct_message(
                               agent_contexts_other(agent_contexts, agent_i)))
               ELSE agent_contexts[agent_i]
       IN  agent_contexts' =
               [agent_contexts EXCEPT ![agent_i] =
                   Append(prompted, construct_assistant_message(agent_i, round_idx))]
    /\ IF agent_i < Len(agent_contexts)
       THEN agent_i' = agent_i + 1 /\ round_idx' = round_idx
       ELSE agent_i' = 1 /\ round_idx' = round_idx + 1
    /\ UNCHANGED <<pc, debateFrame>>

\* The last round is over: generated_description[question] = (agent_contexts, answer)
DebateEnds ==
    /\ pc = "debate"
    /\ round_idx = rounds
    /\ pc' = "debate_done"
    /\ UNCHANGED <<agent_contexts, round_idx, agent_i, debateFrame>>

NextDebate ==
    \/ BuildPrompt
    \/ Generate
    \/ AgentTurn
    \/ DebateEnds

SpecDebate == InitDebate /\ [][NextDebate]_vars

-----------------------------------------------------------------------------
(* The debate of one question in the confidence-score scripts:              *)
(* gen_gsm_confiscore.py, gen_gsm_confiscore_v3-5.py (stateless restart,    *)
(* while loop), gen_gsm_confiscore_v4.py and gen_gsm_role_specialization.py *)
(* (stateful, for loop).                                                    *)
(*                                                                          *)
(* A message is a record: role, kind and the agent whose solution, answer,  *)
(* score and explanation it was built from (0: none).                       *)

StatelessScripts == {"gen_gsm_confiscore", "gen_gsm_confiscore_v3-5"}
StatefulScripts == {"gen_gsm_confiscore_v4", "gen_gsm_role_specialization"}
ConfiscoreScripts == StatelessScripts \cup StatefulScripts

MaxCriticAgents == 2

\* What extract_number gives for an agent's response, and the score a critic's
\* output states for an agent (NoScore: it states none in the expected form).
RoundAnswers == {NoneVal, <<"5">>, <<"7">>}
NoScore == -1
StatedScores == {NoScore, 0, 3, 5, 8, 12}

\* max(1, min(10, score))
clamp(score) == MaxOf({1, MinOf({10, score})})

\* parse_critic_score(text), from what re.search finds in the text: the number
\* after "Confidence Score:", NoScore when there is no match.
\*   confiscore: score = int(m.group(1)); return max(1, min(10, score))
\*   v3-5, v4:   score = int(m), which raises TypeError on a match object
parse_critic_score(s, m) ==
    IF m = NoScore THEN [raised |-> FALSE, score |-> NoScore]
    ELSE IF s = "gen_gsm_confiscore"
    THEN [raised |-> FALSE, score |-> clamp(m)]
    ELSE [raised |-> TRUE, score |-> NoScore]

\* score = parse_critic_score(critic_content)
\* score = score if score is not None else 5
critic_score(s, m) ==
    IF parse_critic_score(s, m).score # NoScore THEN parse_critic_score(s, m).score
    ELSE 5

\* parse_multi_critic_output(text, num_agents), from the score the JSON in the
\* text states for every agent id: scores = [5] * num_agents, then for every
\* item with a known id and a score, scores[idx] = max(1, min(10, sc)).
parse_multi_critic_output(stated) ==
    [i \in 1..Len(stated) |-> IF stated[i] = NoScore THEN 5 ELSE clamp(stated[i])]

HIGH_THRESHOLD(s) ==
    CASE s \in StatelessScripts -> 7
      [] s = "gen_gsm_confiscore_v4" -> 5
      [] s = "gen_gsm_role_specialization" -> 9

LOW_THRESHOLD(s) ==
    CASE s \in StatelessScripts -> 7
      [] s = "gen_gsm_confiscore_v4" -> 7
      [] s = "gen_gsm_role_specialization" -> 4

Message(role, kind, agent) == [role |-> role, kind |-> kind, agent |-> agent]

\* init_agent_contexts() / construct_actor_prompt(question, persona)
init_agent_contexts(s, agents) ==
    [i \in 1..agents |->
        IF s = "gen_gsm_role_specialization"
        THEN <<Message("system", "persona", 0), Message("user", "question", 0)>>
        ELSE <<Message("user", "question", 0)>>]

construct_restart_prompt(i) == Message("user", "restart", i)
construct_unified_debate_prompt(i) == Message("user", "debate", i)
assistant_msg(i) == Message("assistant", "solution", i)

AllScores(scores, Holds(_)) == \A k \in 1..Len(scores) : Holds(scores[k])

\* Condition A: high-consensus early stop.
\*   confiscore, v3-5: len(set(answers_this_round)) == 1 and all(s >= HIGH_THRESHOLD ...)
\*   v4: commented out
\*   role_specialization: len(valid_answers) == agents and
\*       len(set(valid_answers)) == 1 and all(s >= 8 for s in scores_this_round)
ConditionA(s, answers, scores) ==
    LET valid_answers == SelectSeq(answers, LAMBDA a : a # NoneVal)
        AtLeastHigh(x) == x >= HIGH_THRESHOLD(s)
        AtLeast8(x) == x >= 8
    IN  CASE s \in StatelessScripts ->
                /\ Cardinality({answers[k] : k \in 1..Len(answers)}) = 1
                /\ AllScores(scores, AtLeastHigh)
          [] s = "gen_gsm_confiscore_v4" -> FALSE
          [] s = "gen_gsm_role_specialization" ->
                /\ Len(valid_answers) = Len(answers)
                /\ Cardinality({valid_answers[k] : k \in 1..Len(valid_answers)}) = 1
                /\ AllScores(scores, AtLeast8)

\* Condition B: all(s < LOW_THRESHOLD for s in scores_this_round)
ConditionB(s, scores) ==
    LET Low(x) == x < LOW_THRESHOLD(s)
    IN  AllScores(scores, Low)

\* The restart step.
\*   confiscore, v3-5: agent_contexts = new_agent_contexts; round_idx = 0
\*   v4: agent_contexts[i].append(restart_prompt) after the loop over i, with
\*       i the last agent
\*   role_specialization: agent_contexts[i].append(restart_msg) for every i
Restart(s, contexts) ==
    CASE s \in StatelessScripts ->
            [i \in 1..Len(contexts) |-> <<construct_restart_prompt(i)>>]
      [] s = "gen_gsm_confiscore_v4" ->
            [contexts EXCEPT ![Len(contexts)] =
                Append(@, construct_restart_prompt(Len(contexts)))]
      [] s = "gen_gsm_role_specialization" ->
            [i \in 1..Len(contexts) |->
                Append(contexts[i], construct_restart_prompt(i))]

\* What follows the answers and scores of a round, up to the loop's test.
RoundEnd(s, contexts, answers, scores) ==
    IF ConditionA(s, answers, scores)
    THEN [stop |-> TRUE, contexts |-> contexts, round_idx |-> round_idx,
          this_round |-> [answers |-> answers, scores |-> scores]]
    ELSE IF ConditionB(s, scores)
    THEN [stop |-> FALSE, contexts |-> Restart(s, contexts),
          round_idx |-> IF s \in StatelessScripts THEN 0 ELSE round_idx + 1,
          this_round |-> NoRound]
    ELSE [stop |-> FALSE,
          contexts |-> [i \in 1..Len(contexts) |->
                           Append(contexts[i], construct_unified_debate_prompt(i))],
          round_idx |-> round_idx + 1,
          this_round |-> NoRound]

InitConfiscore ==
    /\ pc = "confiscore"
    /\ script \in ConfiscoreScripts
    /\ rounds \in 1..MaxDebateRounds
    /\ \E agents \in 1..MaxCriticAgents :
           agent_contexts = init_agent_contexts(script, agents)
    /\ round_idx = 0
    /\ agent_i = 1
    /\ this_round = NoRound
    /\ config = NoConfig
    /\ all_rounds_results = <<>>
    /\ questions = <<>>
    /\ output_file = NoFile
    /\ generated_description = <<>>
    /\ idx = 0
    /\ calls = 0
    /\ runs = 0
    /\ events = NoEvents
    /\ IdleExtract
    /\ IdleVote
    /\ IdleGen
    /\ IdleScore
    /\ IdleAnalysis
    /\ IdleReview
    /\ IdleRepair

confiscoreFrame == <<script, rounds, config, all_rounds_results, reviewVars, repairVars,
                     questions, output_file,
                     generated_description,
                     idx, calls, runs, events, extractVars, voteVars, genVars,
                     scoreVars, analysisVars>>

EndOfRound(end) ==
    /\ agent_contexts' = end.contexts
    /\ round_idx' = end.round_idx
    /\ this_round' = end.this_round
    /\ agent_i' = 1
    /\ pc' = IF end.stop \/ end.round_idx >= rounds THEN "confiscore_done"
             ELSE "confiscore"

\* confiscore, v3-5: agent i answers and the critic scores the answer; after
\* the last agent of the round the conditions are tested. The script ends with
\* the exception when parsing the critic's output raises.
ActorAndCritic(ans_number, m) ==
    /\ pc = "confiscore"
    /\ script \in StatelessScripts
    /\ LET contexts == [agent_contexts EXCEPT ![agent_i] = Append(@, assistant_msg(agent_i))]
           answers == Append(this_round.answers, ans_number)
           scores == Append(this_round.scores, critic_score(script, m))
       IN  IF parse_critic_score(script, m).raised
           THEN /\ pc' = "confiscore_raised"
                /\ agent_contexts' = contexts
                /\ this_round' = [this_round EXCEPT !.answers = answers]
                /\ UNCHANGED <<agent_i, round_idx>>
           ELSE IF agent_i < Len(agent_contexts)
           THEN /\ agent_contexts' = contexts
                /\ this_round' = [answers |-> answers, scores |-> scores]
                /\ agent_i' = agent_i + 1
                /\ UNCHANGED <<pc, round_idx>>
           ELSE EndOfRound(RoundEnd(script, contexts, answers, scores))
    /\ UNCHANGED confiscoreFrame

\* v4, role_specialization: agent i answers.
Actor(ans_number) ==
    /\ pc = "confiscore"
    /\ script \in StatefulScripts
    /\ agent_i <= Len(agent_contexts)
    /\ agent_contexts' = [agent_contexts EXCEPT ![agent_i] = Append(@, assistant_msg(agent_i))]
    /\ this_round' = [this_round EXCEPT !.answers = Append(@, ans_number)]
    /\ agent_i' = agent_i + 1
    /\ UNCHANGED <<pc, round_idx, confiscoreFrame>>

\* v4, role_specialization: one critic call scores all agents of the round,
\* then the conditions are tested.
MultiCritic(critic_content) ==
    /\ pc = "confiscore"
    /\ script \in StatefulScripts
    /\ agent_i > Len(agent_contexts)
    /\ Len(critic_content) = Len(agent_contexts)
    /\ EndOfRound(RoundEnd(script, agent_contexts, this_round.answers,
                           parse_multi_critic_output(critic_content)))
    /\ UNCHANGED confiscoreFrame

CriticContents == UNION {[1..n -> StatedScores] : n \in 1..MaxCriticAgents}

NextConfiscore ==
    \/ \E a \in RoundAnswers, m \in StatedScores : ActorAndCritic(a, m)
    \/ \E a \in RoundAnswers : Actor(a)
    \/ \E critic_content \in CriticContents : MultiCritic(critic_content)

SpecConfiscore == InitConfiscore /\ [][NextConfiscore]_vars

\* The script goes on as long as its loop has a step to take.
SpecConfiscoreFair ==
    InitConfiscore /\ [][NextConfiscore]_vars /\ WF_vars(NextConfiscore)

-----------------------------------------------------------------------------
(* One question of gen_math_critic_actor.py and gen_math_critic_actor_3_5.py. *)
(*                                                                            *)
(* What a model call returns is "" (call_openai_api caught an exception) or a *)
(* text.  A critic's text is described by what parse_critic_output finds in   *)
(* it: no JSON object, one json.loads refuses, or the dict it loads.  A JSON  *)
(* value is a number (a rational), a str (a text) or null.  Of a score only   *)
(* logic_score and computation_score are kept: verification_step and         *)
(* critique are strings in every case.                                        *)

CriticActorScripts == {"gen_math_critic_actor", "gen_math_critic_actor_3_5"}

\* The critic calls of a question: one for every agent of every round.
MaxCriticCalls == 4

Number(n) == [type |-> "number", value |-> <<n, 1>>]
String(t) == [type |-> "str", value |-> t]
Null == [type |-> "null", value |-> <<>>]

ResponseTexts == {"", "x"}

NoJson(kind) == [kind |-> kind, data |-> <<>>]
Json(d) == [kind |-> "json", data |-> d]
ScoreTexts ==
    {NoJson("empty"), NoJson("no_json"), NoJson("bad_json"),
     Json(<<<<"verification_step", String(<<"v">>)>>, <<"logic_score", Number(7)>>,
            <<"computation_score", String(<<"8">>)>>, <<"critique", String(<<"c">>)>>>>),
     Json(<<<<"verification_step", String(<<"v">>)>>, <<"logic_score", String(<<"a">>)>>,
            <<"computation_score", Null>>, <<"critique", String(<<"c">>)>>>>),
     Json(<<<<"logic_score", String(<<"-", "3">>)>>>>)}

default_score == [logic_score |-> <<0, 1>>, computation_score |-> <<0, 1>>]

\* Variant of safe_parse_float: what cannot be parsed is None.
safe_parse_float_or_none(s, value) ==
    IF value.type = "number" THEN value.value
    ELSE IF value.type = "str" /\ float(value.value) # NotFloat THEN float(value.value)
    ELSE NoneVal

\* _safe_parse_float(value, default=0.0)
\*   gen_math_critic_actor:     float(value) of a str
\*   gen_math_critic_actor_3_5: float(re.sub(r'[^\d.]', '', value)) of a str
safe_parse_float(s, value) ==
    LET clean == IF s = "gen_math_critic_actor_3_5"
                 THEN SelectSeq(value.value, IsNumChar)
                 ELSE value.value
    IN  IF value.type = "number" THEN value.value
        ELSE IF value.type = "str" /\ float(clean) # NotFloat THEN float(clean)
        ELSE <<0, 1>>

\* parse_critic_output(text)
\*   gen_math_critic_actor:     default_score unless all four keys are in data
\*   gen_math_critic_actor_3_5: data.get(key) of whatever keys there are
parse_critic_output(s, score_text) ==
    LET data == score_text.data
        required_keys == {"verification_step", "logic_score", "computation_score", "critique"}
    IN  IF score_text.kind # "json" THEN default_score
        ELSE IF s = "gen_math_critic_actor" /\ ~(required_keys \subseteq DictKeys(data))
        THEN default_score
        ELSE [logic_score |-> safe_parse_float(s, DictGet(data, "logic_score", Null)),
              computation_score |->
                  safe_parse_float(s, DictGet(data, "computation_score", Null))]

\* The solution kept for agent i (counted from 1) in round r: in round 0 of 3_5
\* the "programmer", personas[i % 3] with i counted from 0, gets the result of
\* executing its response appended.
actor_solution(s, r, i, response_text) ==
    IF s = "gen_math_critic_actor_3_5" /\ r = 0 /\ (i - 1) % 3 = 1
    THEN IF response_text = "" THEN "--- EXECUTION RESULT ---"
         ELSE "x --- EXECUTION RESULT ---"
    ELSE response_text

\* current_round_results: zip(actor_solutions, critic_scores)
current_round_results(solutions, scores) ==
    [k \in 1..MinOf({Len(solutions), Len(scores)}) |->
        [solution |-> solutions[k], score |-> scores[k]]]

\* results[question] = {...}
critic_actor_record(all_rounds) ==
    [round_1_results |-> all_rounds[1],
     final_round_results |-> all_rounds[Len(all_rounds)],
     all_rounds_data |-> all_rounds]

InitCritic ==
    /\ pc = "critic"
    /\ script \in CriticActorScripts
    /\ config \in {c \in [agents : 1..MaxCriticCalls, rounds : 1..MaxCriticCalls] :
                       c.agents * c.rounds <= MaxCriticCalls}
    /\ all_rounds_results = <<>>
    /\ this_round = NoRound
    /\ rounds = 0
    /\ agent_contexts = <<>>
    /\ round_idx = 0
    /\ agent_i = 0
    /\ questions = <<>>
    /\ output_file = NoFile
    /\ generated_description = <<>>
    /\ idx = 0
    /\ calls = 0
    /\ runs = 0
    /\ events = NoEvents
    /\ IdleExtract
    /\ IdleVote
    /\ IdleGen
    /\ IdleScore
    /\ IdleAnalysis
    /\ IdleReview
    /\ IdleRepair

criticFrame == <<script, config, rounds, agent_contexts, round_idx, agent_i, runVars,
                 reviewVars, repairVars,
                 extractVars, voteVars, scoreVars, analysisVars, mapping, judge,
                 scores_map, final_answers>>

\* An actor (round 0) or debater (later rounds) call of the round is answered.
ActorSolves(response_text) ==
    /\ pc = "critic"
    /\ Len(this_round.answers) < config.agents
    /\ this_round' = [this_round EXCEPT !.answers =
           Append(@, actor_solution(script, Len(all_rounds_results), Len(@) + 1,
                                    response_text))]
    /\ UNCHANGED <<pc, all_rounds_results, results, criticFrame>>

\* A critic call of the round is answered; after the last one the round is
\* collated and, after the last round, the record of the question is stored.
CriticAnswers(score_text) ==
    /\ pc = "critic"
    /\ Len(this_round.answers) = config.agents
    /\ LET scores == Append(this_round.scores, parse_critic_output(script, score_text))
           all_rounds == Append(all_rounds_results,
                                current_round_results(this_round.answers, scores))
       IN  IF Len(scores) < config.agents
           THEN /\ this_round' = [this_round EXCEPT !.scores = scores]
                /\ UNCHANGED <<pc, all_rounds_results, results>>
           ELSE /\ this_round' = NoRound
                /\ all_rounds_results' = all_rounds
                /\ IF Len(all_rounds) < config.rounds
                   THEN UNCHANGED <<pc, results>>
                   ELSE /\ results' = <<critic_actor_record(all_rounds)>>
                        /\ pc' = "critic_done"
    /\ UNCHANGED criticFrame

NextCritic ==
    \/ \E response_text \in ResponseTexts : ActorSolves(response_text)
    \/ \E score_text \in ScoreTexts : CriticAnswers(score_text)

SpecCritic == InitCritic /\ [][NextCritic]_vars

-----------------------------------------------------------------------------
(* gen_math_critic_actor_3_7.py: the blind review of one question with the  *)
(* judges' reviews kept, and the feedback of round 3.                       *)

\* What the three judges' parsed outputs can be: no review, one review of a
\* candidate or of a label that is none of them, or two reviews.
JudgeOutputs ==
    {<<>>} \cup {<<r>> : r \in Review} \cup
    { <<[candidate |-> "A", final_score |-> 3], [candidate |-> "B", final_score |-> 5]>>,
      <<[candidate |-> "D", final_score |-> 3], [candidate |-> "A", final_score |-> 5]>>,
      <<[candidate |-> "C", final_score |-> 5], [candidate |-> "C", final_score |-> 3]>> }

\* One of the three judges reviews the candidates: blind_reviews.append(reviews)
\* and the scores are filed.
BlindReview(reviews) ==
    /\ pc = "review"
    /\ judge < NumAgents
    /\ blind_reviews' = Append(blind_reviews, reviews)
    /\ scores_map' = ApplyReviews(reviews, 1, mapping, scores_map)
    /\ judge' = judge + 1
    /\ pc' = IF judge + 1 = NumAgents THEN "round3" ELSE "review"
    /\ UNCHANGED <<mapping, final_answers, results, my_feedback, extractVars, voteVars,
                   scoreVars, analysisVars, runVars, debateVars, repairVars>>

\* for l, oid in mapping.items(): if oid == i: my_label = l; break
my_label(map, i) ==
    LET at == {k \in 1..Len(map) : map[k][2] = i}
    IN  IF at = {} THEN NoneVal ELSE <<map[MinOf(at)][1]>>

\* The reviews r of one judge with r.get("candidate") == my_label, in order.
RECURSIVE FeedbackOf(_, _, _)
FeedbackOf(agent_reviews, k, label) ==
    IF k > Len(agent_reviews) THEN <<>>
    ELSE (IF <<agent_reviews[k].candidate>> = label THEN <<agent_reviews[k]>> ELSE <<>>)
         \o FeedbackOf(agent_reviews, k + 1, label)

\* my_feedback of agent i: for agent_reviews in blind_reviews: for r in agent_reviews
RECURSIVE GatherFeedback(_, _, _)
GatherFeedback(reviews, j, label) ==
    IF j > Len(reviews) THEN <<>>
    ELSE FeedbackOf(reviews[j], 1, label) \o GatherFeedback(reviews, j + 1, label)

\* Round 3 up to the correction prompts: the feedback gathered for every agent.
Correction ==
    /\ pc = "round3"
    /\ my_feedback' = [i \in Agents |-> GatherFeedback(blind_reviews, 1, my_label(mapping, i))]
    /\ pc' = "corrected"
    /\ UNCHANGED <<mapping, judge, scores_map, final_answers, results, blind_reviews,
                   extractVars, voteVars, scoreVars, analysisVars, runVars, debateVars,
                   repairVars>>

NextReview ==
    \/ \E p \in Permutations3 : Shuffle(p)
    \/ \E reviews \in JudgeOutputs : BlindReview(reviews)
    \/ Correction

SpecReview == InitGen /\ [][NextReview]_vars

-----------------------------------------------------------------------------
(* repair_json_3_7.py: repairing the final decisions of a result file *)

\* The phrase "Code Execution Output:", one token of a text.
EXEC == "Code Execution Output:"

PyTrue == <<"True">>
PyFalse == <<"False">>
PyBool(b) == IF b THEN PyTrue ELSE PyFalse

\* '"' in t or '+' in t
LooksLikeCode(t) == \E i \in 1..Len(t) : t[i] \in {"\"", "+"}

\* t.split(sep)[-1]: what follows the last occurrence of sep.
AfterLast(t, sep) ==
    LET at == {i \in 1..Len(t) : t[i] = sep}
    IN  IF at = {} THEN t
        ELSE SubSeq(t, (CHOOSE i \in at : \A j \in at : i >= j) + 1, Len(t))

robust_extract_answer(t) ==
    LET has_output == \E i \in 1..Len(t) : t[i] = EXEC
        output_part == AfterLast(t, EXEC)
        output_match == Search(output_part, MatchBoxedAny)
        numbers == FindAll(output_part, MatchSignedNumber)
        matches == FindAll(t, MatchBoxedAny)
        candidate == Search(t, MatchBoxedAny)
    IN  IF has_output /\ output_match # NoneVal THEN output_match
        ELSE IF has_output /\ numbers # <<>> THEN Last(numbers)
        ELSE IF matches # <<>> /\ ~LooksLikeCode(Last(matches))
             THEN Last(matches)
        ELSE IF Len(matches) > 1 /\ ~LooksLikeCode(matches[Len(matches) - 1])
             THEN matches[Len(matches) - 1]
        ELSE IF candidate # NoneVal /\ ~LooksLikeCode(candidate) THEN candidate
        ELSE ErrorVal

\* Variant of LooksBroken: every decision is taken again from round 4.
AnyDecision(current_final) == TRUE

\* The test of line 57: the decision looks broken.
LooksBroken(current_final) ==
    \/ LooksLikeCode(current_final)
    \/ current_final = <<>>
    \/ current_final = ErrorVal

\* The body of the loop for one entry res.
repair_entry(res) ==
    LET r4_text == DictGet(res, "round_4_verification", <<>>)
        current_final == DictGet(res, "final_decision", <<>>)
        new_ans == robust_extract_answer(r4_text)
        temp == DictGet(res, "temp_decision", NoneVal)
    IN  IF /\ LooksBroken(current_final)
           /\ r4_text # <<>>
           /\ new_ans # ErrorVal
           /\ new_ans # current_final
        THEN DictSet(DictSet(res, "final_decision", new_ans),
                     "recanted", PyBool(temp # new_ans))
        ELSE res

\* The loop over data.items(): every entry in place.
repair_data(data) == [n \in 1..Len(data) |-> <<data[n][1], repair_entry(data[n][2])>>]

MaxRepairEntries == 2

\* Texts of round 4: markers with an answer, with code, and execution output.
VerificationTexts ==
    { Missing, <<>>, <<"x">>,
      Marker(<<"5">>),
      Marker(<<"1", "+", "2">>),
      Marker(<<"7">>) \o Marker(<<"1", "+", "2">>),
      Marker(<<"5">>) \o Marker(<<"\"", "a", "\"">>) \o Marker(<<"1", "+", "2">>),
      <<EXEC>> \o Marker(<<"1", "+", "2">>),
      Marker(<<"1", "+", "2">>) \o <<EXEC, "-", "1", "2">>,
      Marker(<<"5">>) \o <<EXEC, "x">> }

FinalDecisions ==
    { Missing, <<>>, ErrorVal, <<"5">>, <<"1", "+", "2">>, <<"\"", "a", "\"">> }

TempDecisions == { Missing, <<"5">>, <<"1", "+", "2">> }

Recanted == { Missing, PyTrue, PyFalse }

\* An entry of the file: the keys it has, in the order they were written.
RepairEntry(r4, final, temp, recanted) ==
    LET field(k, v) == IF v = Missing THEN <<>> ELSE <<<<k, v>>>>
    IN  <<<<"ground_truth", <<"5">>>>>>
        \o field("temp_decision", temp)
        \o field("round_4_verification", r4)
        \o field("final_decision", final)
        \o field("recanted", recanted)

RepairEntries ==
    { RepairEntry(r4, final, temp, recanted) :
        r4 \in VerificationTexts, final \in FinalDecisions,
        temp \in TempDecisions, recanted \in Recanted }

\* The entries that fill the rest of a file: one with a sound decision, one
\* that the repair changes, one that it cannot repair.
OtherEntries ==
    { RepairEntry(Marker(<<"7">>), <<"5">>, <<"5">>, PyFalse),
      RepairEntry(Marker(<<"7">>), ErrorVal, <<"5">>, PyFalse),
      RepairEntry(<<"x">>, ErrorVal, <<"5">>, PyTrue) }

InitRepair ==
    /\ pc = "repair"
    /\ \E n \in 1..MaxRepairEntries :
         \E first \in RepairEntries, rest \in [2..n -> OtherEntries] :
            json_data = [q \in 1..n |-> <<q, IF q = 1 THEN first ELSE rest[q]>>]
    /\ json_before = json_data
    /\ text = <<>>
    /\ npieces = 0
    /\ extracted = NoExtraction
    /\ IdleVote
    /\ IdleGen
    /\ IdleScore
    /\ IdleAnalysis
    /\ IdleRun
    /\ IdleDebate
    /\ IdleReview

\* One run of the script: load the file, repair the entries, write it back.
Repair ==
    /\ pc \in {"repair", "repaired"}
    /\ json_data' = repair_data(json_data)
    /\ pc' = IF pc = "repair" THEN "repaired" ELSE "repaired_again"
    /\ UNCHANGED <<json_before, extractVars, voteVars, genVars, scoreVars,
                   analysisVars, runVars, debateVars, reviewVars>>

NextRepair == Repair

SpecRepair == InitRepair /\ [][NextRepair]_vars

-----------------------------------------------------------------------------
(* Claims about the extractors (SpecExtract) *)

\* Position of the "}" closing a marker opened at i, 0 when it is not closed.
CloseOf(t, i) ==
    LET closes == {j \in (i + 2)..Len(t) : t[j] = "}"}
    IN  IF closes = {} THEN 0 ELSE MinOf(closes)

\* \boxed{...} markers with a non-empty payload, by the position of \boxed.
BoxedMarkers(t) ==
    {i \in 1..Len(t) : At(t, i, BOXED) /\ At(t, i + 1, "{") /\ CloseOf(t, i) > i + 2}
\* \boxed{...} markers whose payload is made of digits, '.', ',' and '$'.
NumericMarkers(t) ==
    {i \in 1..Len(t) :
        /\ At(t, i, BOXED) /\ At(t, i + 1, "{") /\ CloseOf(t, i) > 0
        /\ \A k \in (i + 2)..(CloseOf(t, i) - 1) : t[k] \in Digits \cup {".", ",", "$"}}
PayloadAt(t, i) == SubSeq(t, i + 2, CloseOf(t, i) - 1)
DigitsAndDots(p) == SelectSeq(p, LAMBDA c : c \in Digits \cup {"."})
\* Markers whose payload still holds something once cleaned.
UsableMarkers(t) == {i \in NumericMarkers(t) : DigitsAndDots(PayloadAt(t, i)) # <<>>}

IsUnsignedNumber(q) ==
    /\ Len(q) >= 1
    /\ \A k \in 1..Len(q) : q[k] \in Digits \cup {"."}
    /\ Cardinality({k \in 1..Len(q) : q[k] = "."}) <= 1
    /\ q[1] \in Digits /\ q[Len(q)] \in Digits
NumberShaped(q) ==
    \/ IsUnsignedNumber(q)
    \/ (Len(q) >= 2 /\ q[1] \in {"-", "+"} /\ IsUnsignedNumber(Tail(q)))
\* C9 as stated: the generation scripts take the payload of the last \boxed
\* marker of the response, whatever precedes or follows it (stated for the
\* responses whose markers all hold a plain number).
C9_LastMarkerTaken ==
    (/\ pc = "extracted"
     /\ BoxedMarkers(text) # {}
     /\ \A i \in BoxedMarkers(text) : NumberShaped(PayloadAt(text, i))) =>
        LET want == PayloadAt(text, MaxOf(BoxedMarkers(text)))
        IN  /\ extracted.extract_boxed_answer = want
            /\ extracted.extract_boxed_number = want
            /\ extracted.extract_number = want

NumberSpans(t) ==
    {sp \in (1..Len(t)) \X (1..Len(t)) :
        sp[1] <= sp[2] /\ NumberShaped(SubSeq(t, sp[1], sp[2]))}
\* The last number-shaped substring, taken as long as it goes.
LastNumber(t) ==
    LET e == MaxOf({sp[2] : sp \in NumberSpans(t)})
        a == MinOf({sp[1] : sp \in {x \in NumberSpans(t) : x[2] = e}})
    IN  SubSeq(t, a, e)
NoMarker(t) == \A i \in 1..Len(t) : t[i] # BOXED /\ t[i] # "#"

\* Every '.' of the text is a decimal point: it stands between two digits.
DotsAreDecimalPoints(t) ==
    \A i \in 1..Len(t) : t[i] = "." => DigitAt(t, i - 1) /\ DigitAt(t, i + 1)

\* C10 as stated: without a marker the extractor returns the last number-shaped
\* substring of the text, with its sign and its decimal part (stated for the
\* texts in which every '.' is a decimal point).
C10_FallbackLastNumber ==
    (/\ pc = "extracted"
     /\ NoMarker(text)
     /\ DotsAreDecimalPoints(text)
     /\ NumberSpans(text) # {}) =>
        /\ extracted.parse_answer = LastNumber(text)
        /\ extracted.parse_answer_compare = LastNumber(text)

-----------------------------------------------------------------------------
(* Claims about the votes of the evaluation scripts (SpecVote) *)

Occurrences(A, x) == Cardinality({i \in 1..Len(A) : A[i] = x})
\* The entry with the most occurrences, the first in the list among equals.
Winner(A) ==
    A[MinOf({k \in 1..Len(A) :
                \A j \in 1..Len(A) : Occurrences(A, A[j]) <= Occurrences(A, A[k])})]
Tied(A) ==
    \E i, j \in 1..Len(A) :
        /\ A[i] # A[j]
        /\ Occurrences(A, A[i]) = Occurrences(A, A[j])
        /\ \A k \in 1..Len(A) : Occurrences(A, A[k]) <= Occurrences(A, A[i])

EvalSolutions == Solutions(final_round_results, 1)
\* What each vote path extracts from the agents' responses, agent by agent.
LegacyExtracted == MapAnswers(EvalSolutions, ParseOrSolve)
FilterExtracted == MapAnswers(EvalSolutions, ParseOrSolveFilter)
CompareExtracted == MapAnswers(EvalSolutions, parse_answer_compare)
GroupExtracted == MapAnswers(EvalSolutions, extract_boxed_number)

\* C1: for every non-empty list of extracted answers the unweighted vote
\* (most_frequent of the legacy evaluator and of compare_accuracies, the counts
\* dictionary of run_group_debate) returns the answer with the most occurrences,
\* and among answers with the same highest count the one that occurs first.
C1_MajorityFirstHighest ==
    pc = "evaluated" =>
        /\ NotNone(LegacyExtracted) # <<>> =>
              decisions.legacy_vote = Winner(NotNone(LegacyExtracted))
        /\ NotNone(CompareExtracted) # <<>> =>
              decisions.get_final_decision = Winner(NotNone(CompareExtracted))
        /\ NotNone(GroupExtracted) # <<>> =>
              decisions.group_vote = Winner(NotNone(GroupExtracted))

\* Two answers share the highest count, an agent gave no answer, and the
\* answer met first was chosen on every path.
C1_Witness ==
    /\ pc = "evaluated"
    /\ Len(NotNone(LegacyExtracted)) >= 4
    /\ Len(NotNone(LegacyExtracted)) < Len(final_round_results)
    /\ Tied(NotNone(LegacyExtracted))
    /\ decisions.legacy_vote = NotNone(LegacyExtracted)[1]
    /\ decisions.legacy_vote # NotNone(LegacyExtracted)[Len(NotNone(LegacyExtracted))]
    /\ decisions.get_final_decision = decisions.legacy_vote
    /\ decisions.group_vote = decisions.legacy_vote

NumericAnswers(A) == {A[i] : i \in {k \in 1..Len(A) : NumberShaped(A[k])}}

\* C2 as stated: in every majority-vote path, when at least one agent's
\* response yields a numeric answer the decision is one of the numeric answers,
\* never None or an empty string, however many agents yield no answer.
C2_NoAnswerCastsNoVote ==
    pc = "evaluated" =>
        /\ NumericAnswers(FilterExtracted) # {} =>
              decisions.filter_vote \in NumericAnswers(FilterExtracted)
        /\ NumericAnswers(LegacyExtracted) # {} =>
              decisions.legacy_vote \in NumericAnswers(LegacyExtracted)
        /\ NumericAnswers(CompareExtracted) # {} =>
              decisions.get_final_decision \in NumericAnswers(CompareExtracted)
        /\ NumericAnswers(GroupExtracted) # {} =>
              decisions.group_vote \in NumericAnswers(GroupExtracted)

\* C7 as stated: on an empty list of agent answers every aggregation path
\* returns the no-answer value with an empty tally and does not raise.
C7_EmptyListTolerated ==
    (pc = "evaluated" /\ final_round_results = <<>>) =>
        /\ decisions.get_final_decision = NoneVal
        /\ decisions.legacy_vote = NoneVal
        /\ decisions.filter_vote = NoneVal
        /\ decisions.group_vote = NoneVal /\ decisions.counts = <<>>
        /\ decisions.weighted_decision = NoneVal /\ decisions.answer_scores = <<>>

-----------------------------------------------------------------------------
(* Claims about the weighted votes (SpecGen, Spec) *)

\* The record of the question in results.
record == results[1]

Answered(i) == final_answers[i + 1].answer # ErrorVal
ScoreSum(i) == SumSeq(scores_map[i], 1)
\* Averages of agents i and j compared without division; no scores is 0.0.
AvgDen(i) == IF scores_map[i] = <<>> THEN 1 ELSE Len(scores_map[i])
AvgLess(i, j) == ScoreSum(i) * AvgDen(j) < ScoreSum(j) * AvgDen(i)
AvgAtLeastFour(i) == ScoreSum(i) >= 4 * AvgDen(i)
Admitted(i) == Answered(i) /\ AvgAtLeastFour(i)
AgentWeight(i) == Weight(NormScore(RawAvg(scores_map[i])))
\* The weight the agents of set S add to answer a.
WeightFrom(S, a) ==
    LET w(i) == IF i \in S /\ final_answers[i + 1].answer = a THEN AgentWeight(i) ELSE 0
    IN  w(0) + w(1) + w(2)
AdmittedAgents == {i \in Agents : Admitted(i)}
AnsweringAgents == {i \in Agents : Answered(i)}
AnswersOf(S) == {final_answers[i + 1].answer : i \in S}
HasMaxWeight(d, a) ==
    DictHas(d, a) /\ \A k \in 1..Len(d) : d[k][2] <= DictGet(d, a, 0)

\* C4: in a finished question of gen_math_critic_actor_3_7 the answers in
\* voting_weights are exactly the answers of the agents whose average review
\* score is at least 4.0 (an average of exactly 4.0 is admitted, an agent with
\* no scores has average 0.0), and each answer's weight is the sum of the
\* weights of those agents alone: an agent below the threshold adds nothing.
C4_SafetyGate ==
    pc = "done" =>
        /\ DictKeys(record.voting_weights) = AnswersOf(AdmittedAgents)
        /\ \A k \in 1..Len(record.voting_weights) :
              /\ record.voting_weights[k][2] =
                     WeightFrom(AdmittedAgents, record.voting_weights[k][1])
              /\ \E i \in Agents :
                     /\ final_answers[i + 1].answer = record.voting_weights[k][1]
                     /\ AvgAtLeastFour(i)

\* An agent scored 3 and 5 (average exactly 4.0) put its answer into the
\* tally; an agent without scores gave another answer, which is not in it.
C4_Witness ==
    /\ pc = "done"
    /\ \E i, j \in Agents :
          /\ scores_map[i] \in {<<3, 5>>, <<5, 3>>}
          /\ Answered(i)
          /\ DictHas(record.voting_weights, final_answers[i + 1].answer)
          /\ scores_map[j] = <<>>
          /\ Answered(j)
          /\ ~DictHas(record.voting_weights, final_answers[j + 1].answer)

\* The first agent, in agent order, among the answering agents with the
\* highest average.
FirstBestAgent ==
    MinOf({i \in AnsweringAgents : \A j \in AnsweringAgents : ~AvgLess(i, j)})

FallbackFlagRight == record.fallback_triggered <=> (AdmittedAgents = {})
ErrorOnlyWithoutAnswers == (record.final_decision = ErrorVal) <=> (AnsweringAgents = {})

\* C5 as stated: fallback_triggered is true exactly when no answering agent
\* passes the gate; then the decision is the answer of the answering agent with
\* the highest average review score, of the first such agent in agent order on
\* a tie; the decision is "Error" only when no agent answered; the record exists.
C5_FallbackFirstAgentOnTie ==
    pc = "done" =>
        /\ results # <<>>
        /\ FallbackFlagRight
        /\ ErrorOnlyWithoutAnswers
        /\ (record.fallback_triggered /\ AnsweringAgents # {}) =>
              record.final_decision = final_answers[FirstBestAgent + 1].answer

\* An agent whose average is the best among the supporters of its answer, and
\* the first agent that gave the answer.
Supporters(a) == {i \in AnsweringAgents : final_answers[i + 1].answer = a}
BestSupporter(a) == CHOOSE i \in Supporters(a) : \A j \in Supporters(a) : ~AvgLess(i, j)
FirstSupporter(a) == MinOf(Supporters(a))

\* C5: fallback_triggered is true exactly when no answering agent passes the
\* gate; then the decision is the answer whose best supporter has the highest
\* average review score, and among answers that tie the one that appears first
\* in agent order; the decision is "Error" only when no agent answered; the
\* record exists on every branch.
C5_FallbackFirstAnswerOnTie ==
    pc = "done" =>
        /\ results # <<>>
        /\ FallbackFlagRight
        /\ ErrorOnlyWithoutAnswers
        /\ (record.fallback_triggered /\ AnsweringAgents # {}) =>
              /\ record.final_decision \in AnswersOf(AnsweringAgents)
              /\ \A b \in AnswersOf(AnsweringAgents) :
                    \/ AvgLess(BestSupporter(b), BestSupporter(record.final_decision))
                    \/ /\ ~AvgLess(BestSupporter(record.final_decision), BestSupporter(b))
                       /\ FirstSupporter(record.final_decision) <= FirstSupporter(b)

\* Nobody passes the gate; agent 0 answered 5 without scores, agent 1 answered
\* 7 with average 3, agent 2 answered 5 with average 3: the answers tie at 3
\* and 5, the answer that appears first, is decided.
C5_Witness ==
    /\ pc = "done"
    /\ record.fallback_triggered
    /\ final_answers[1].answer = <<"5">> /\ scores_map[0] = <<>>
    /\ final_answers[2].answer = <<"7">> /\ scores_map[1] = <<3>>
    /\ final_answers[3].answer = <<"5">> /\ scores_map[2] = <<3>>
    /\ record.final_decision = <<"5">>

\* C6 as stated: whenever the final_decision of a record is an answer, it is a
\* key of the record's voting_weights, no other key has a larger weight, and it
\* is the extracted answer of an entry of round_3_finals.
C6_DecisionInTally ==
    (pc = "done" /\ record.final_decision # ErrorVal) =>
        /\ HasMaxWeight(record.voting_weights, record.final_decision)
        /\ \E e \in 1..Len(record.round_3_finals) :
              /\ record.round_3_finals[e].answer = record.final_decision
              /\ record.round_3_finals[e].answer =
                     extract_boxed_answer(record.round_3_finals[e].full_text)

\* The confidence compare_accuracies sums for answer a.
ConfidenceFor(a) ==
    LET s[k \in 0..Len(final_round_results)] ==
            IF k = 0 THEN 0
            ELSE s[k - 1] + (IF CompareExtracted[k] = a
                             THEN final_round_results[k].score.logic_score
                                  + final_round_results[k].score.computation_score
                             ELSE 0)
    IN  s[Len(final_round_results)]

\* The ballots [(5,9),(5,9),(7,1),(7,1),(7,1)].
IsFixture ==
    /\ Len(final_round_results) = 5
    /\ CompareExtracted = << <<"5">>, <<"5">>, <<"7">>, <<"7">>, <<"7">> >>
    /\ \A k \in 1..5 :
          final_round_results[k].score.logic_score
            + final_round_results[k].score.computation_score = (IF k <= 2 THEN 9 ELSE 1)

\* The weighted simulation of compare_accuracies: every agent with an answer
\* adds logic_score + computation_score to its answer, the decision has the
\* largest total, and the fixture decides 5 against the majority's 7.
CompareWeightedVote ==
    pc = "evaluated" =>
        /\ DictKeys(decisions.answer_scores) = {CompareExtracted[k] : k \in 1..Len(CompareExtracted)} \ {NoneVal}
        /\ \A k \in 1..Len(decisions.answer_scores) :
              decisions.answer_scores[k][2] = ConfidenceFor(decisions.answer_scores[k][1])
        /\ IF decisions.answer_scores = <<>>
           THEN decisions.weighted_decision = NoneVal
           ELSE HasMaxWeight(decisions.answer_scores, decisions.weighted_decision)
        /\ IsFixture => /\ decisions.weighted_decision = <<"5">>
                        /\ decisions.get_final_decision = <<"7">>

\* C3 as stated: every agent with an answer adds its confidence to the total of
\* its answer (logic_score + computation_score in compare_accuracies, the
\* exponential of its normalised average review score in
\* gen_math_critic_actor_3_7) and the decision is the answer with the largest
\* total; the fixture decides 5 weighted and 7 unweighted.
C3_EveryAgentAddsWeight ==
    /\ CompareWeightedVote
    /\ pc = "done" =>
          /\ DictKeys(record.voting_weights) = AnswersOf(AnsweringAgents)
          /\ \A k \in 1..Len(record.voting_weights) :
                record.voting_weights[k][2] =
                    WeightFrom(AnsweringAgents, record.voting_weights[k][1])
          /\ AnsweringAgents # {} =>
                HasMaxWeight(record.voting_weights, record.final_decision)

\* C3: in compare_accuracies every agent with an answer adds logic_score +
\* computation_score to the total of its answer; in gen_math_critic_actor_3_7
\* every agent with an answer and an average review score of at least 4.0 adds
\* the exponential of its normalised average; the decision is the answer with
\* the largest total whenever some weight was cast; the fixture decides 5
\* weighted and 7 unweighted.
C3_AdmittedAgentsAddWeight ==
    /\ CompareWeightedVote
    /\ pc = "done" =>
          /\ \A a \in AnswersOf(AnsweringAgents) :
                DictGet(record.voting_weights, a, 0) = WeightFrom(AdmittedAgents, a)
          /\ AdmittedAgents # {} =>
                HasMaxWeight(record.voting_weights, record.final_decision)

\* The fixture was evaluated: 18 against 3, weighted 5, majority 7.
C3_Witness ==
    /\ pc = "evaluated"
    /\ IsFixture
    /\ decisions.answer_scores = << << <<"5">>, 18 >>, << <<"7">>, 3 >> >>
    /\ decisions.weighted_decision = <<"5">>
    /\ decisions.get_final_decision = <<"7">>

-----------------------------------------------------------------------------
(* Claims about what the extractors return (SpecExtract) *)

HasDigit(t) == \E i \in 1..Len(t) : t[i] \in Digits
\* What Python's float() reads, for the characters of the response texts: an
\* optional sign, digits and at most one '.', at least one digit, blanks around.
FloatReadable(q) ==
    LET s == Strip(q)
        u == IF s # <<>> /\ s[1] \in {"-", "+"} THEN Tail(s) ELSE s
    IN  /\ \A k \in 1..Len(u) : u[k] \in Digits \cup {"."}
        /\ Cardinality({k \in 1..Len(u) : u[k] = "."}) <= 1
        /\ HasDigit(u)
NoAnswerOrNumber(r, none) == r = none \/ FloatReadable(r)

\* C11 as stated: on every text each extractor returns either its no-answer
\* value (None, "Error" for extract_boxed_answer) or a numeric string, never an
\* empty or non-numeric string, and on a text without any digit it returns the
\* no-answer value.
C11_NoAnswerOrNumeric ==
    pc = "extracted" =>
        /\ NoAnswerOrNumber(extracted.parse_answer, NoneVal)
        /\ NoAnswerOrNumber(extracted.parse_answer_compare, NoneVal)
        /\ NoAnswerOrNumber(extracted.extract_boxed_answer, ErrorVal)
        /\ NoAnswerOrNumber(extracted.parse_answer_detailed, NoneVal)
        /\ NoAnswerOrNumber(extracted.parse_answer_filter, NoneVal)
        /\ NoAnswerOrNumber(extracted.extract_boxed_number, NoneVal)
        /\ NoAnswerOrNumber(extracted.extract_number, NoneVal)
        /\ ~HasDigit(text) =>
              /\ extracted.parse_answer = NoneVal
              /\ extracted.parse_answer_compare = NoneVal
              /\ extracted.extract_boxed_answer = ErrorVal

\* C12 as stated: when a marker's payload holds a digit or a '.', the answer
\* parse_answer returns is made of digits and at most one '.', with a digit in
\* it, so that float() reads it.
C12_PayloadAnswerIsNumber ==
    (pc = "extracted" /\ UsableMarkers(text) # {}) =>
        /\ extracted.parse_answer = DigitsAndDots(extracted.parse_answer)
        /\ extracted.parse_answer_detailed = DigitsAndDots(extracted.parse_answer_detailed)
        /\ Cardinality({k \in 1..Len(extracted.parse_answer) :
                          extracted.parse_answer[k] = "."}) <= 1
        /\ FloatReadable(extracted.parse_answer)
        /\ FloatReadable(extracted.parse_answer_detailed)

-----------------------------------------------------------------------------
(* Claims about the scorers (SpecScore) *)

\* The ground truth is "#### " followed by a number written with commas, and
\* the decision is that number written without them.
CommaGroundTruth ==
    /\ Len(ground_truth) > 5
    /\ SubSeq(ground_truth, 1, 5) = <<"#", "#", "#", "#", " ">>
    /\ \E k \in 6..Len(ground_truth) : ground_truth[k] = ","
    /\ prediction # NoneVal
    /\ FloatReadable(prediction)
    /\ prediction = SelectSeq(SubSeq(ground_truth, 6, Len(ground_truth)),
                              LAMBDA c : c # ",")

\* C13 as stated: for a ground truth "#### 1,200" and the decision "1200" the
\* scorers of compare_accuracies, compare_accuracies_3_7 and
\* eval_gsm_3_7_detailed report a match.
C13_CommaInsensitive ==
    (pc = "scored" /\ CommaGroundTruth) =>
        /\ verdict.check_correctness = "1"
        /\ verdict.is_correct_3_7 = "True"
        /\ verdict.check_correctness_detailed = "1"

\* The decision is the no-answer value or a string float() cannot read, or the
\* ground truth holds no digit at all.
Unscorable ==
    \/ prediction = NoneVal
    \/ ~FloatReadable(prediction)
    \/ ~HasDigit(ground_truth)

\* C14 as stated: when the decision is the no-answer value or one of the sides
\* cannot be read as a number, every scorer returns false or 0, and the scorer
\* of filter_gsm_hard does not raise on any response text.
C14_UnscorableIsFalse ==
    pc = "scored" =>
        /\ Unscorable =>
              /\ verdict.check_correctness = "0"
              /\ verdict.is_correct_3_7 = "False"
              /\ verdict.is_correct = "False"
        /\ prediction # NoneVal =>
              verdict.compute_accuracy_filter \in {"0", "1", "None"}

-----------------------------------------------------------------------------
(* Claims about the analysis scripts (SpecAnalysis) *)

critic_questions == 1..Len(response_dict)
common_questions == original_questions \cap critic_questions
\* The questions whose ground truth holds a number.
Parseable == {k \in critic_questions : HasDigit(response_dict[k].ground_truth)}

\* C15 as stated: when a script finishes, the questions whose ground truth
\* cannot be parsed are not in the denominator of its accuracy (legacy:
\* len(accuracies); eval_gsm_3_7_detailed: total_questions; compare_accuracies:
\* the number of compared questions) and are not counted as correct.
C15_UnparseableLeftOut ==
    pc = "analysed" =>
        /\ report.legacy.status = "done" =>
              report.legacy.denominator = Cardinality(Parseable)
        /\ report.detailed_3_7.status = "done" =>
              report.detailed_3_7.denominator = Cardinality(Parseable)
        /\ (report.compare.status = "done" /\ common_questions # {}) =>
              report.compare.denominator = Cardinality(common_questions \cap Parseable)

InCategories(q) ==
    Cardinality({c \in {"win", "loss", "correct", "incorrect"} :
                    q \in report.categories[c]})
Compared == pc = "analysed" /\ report.compare.status = "done" /\ common_questions # {}

\* C16: when compare_accuracies.main compares two result sets, every question
\* present in both is in exactly one of win, loss, correct, incorrect (win when
\* only the experimental run is correct, incorrect when neither is), the four
\* sizes add up to the number of compared questions, and the chain files a
\* question with a correct baseline and an incorrect experimental run under
\* loss, and every pair of verdicts under exactly one category.
C16_ExactlyOneCategory ==
    /\ Categorize("1", "0") = "loss"
    /\ Categorize("0", "1") = "win"
    /\ Categorize("1", "1") = "correct"
    /\ Categorize("0", "0") = "incorrect"
    /\ Compared =>
          /\ \A q \in common_questions :
                /\ InCategories(q) = 1
                /\ q \in report.categories.win <=>
                      CriticActorEntry(response_dict[q]) = "1"
                /\ q \in report.categories.incorrect <=>
                      CriticActorEntry(response_dict[q]) = "0"
          /\ Cardinality(report.categories.win) + Cardinality(report.categories.loss)
               + Cardinality(report.categories.correct)
               + Cardinality(report.categories.incorrect)
             = Cardinality(common_questions)
          /\ report.printed.total_questions = Cardinality(common_questions)

\* Two questions were compared, one won and one both runs got wrong, and a
\* question of the baseline file has no counterpart.
C16_Witness ==
    /\ Compared
    /\ Cardinality(common_questions) = 2
    /\ Cardinality(report.categories.win) = 1
    /\ Cardinality(report.categories.incorrect) = 1
    /\ original_questions \ critic_questions # {}

Excluded == (original_questions \cup critic_questions) \ common_questions

\* C17 as stated: a question present in only one of the two result sets is in
\* none of the four categories, and the summary holds the number of such
\* questions.
C17_ExcludedCounted ==
    (Compared /\ Excluded # {}) =>
        /\ \A q \in Excluded : InCategories(q) = 0
        /\ "excluded" \in DOMAIN report.printed

\* C18 as stated: whatever entries of the result file are malformed, the
\* analysis scripts (get_critic_actor_data, eval_gsm_3_6_detailed,
\* analyze_results) run to the end.
C18_NeverAborts ==
    pc = "analysed" =>
        /\ report.compare.status = "done"
        /\ report.detailed_3_6.status = "done"
        /\ report.analyze_results.status = "done"

-----------------------------------------------------------------------------
(* Claims about the generation scripts (SpecRun) *)

NoRecord == [container |-> "none", content |-> "", calls |-> 0]
\* The record the run holds for q is in the output file.
InFile(q) ==
    /\ output_file.exists
    /\ DictHas(output_file.data, q)
    /\ DictGet(output_file.data, q, NoRecord)
         = DictGet(json_dump(generated_description).data, q, NoRecord)

\* C19 as stated: in every generation script, once a failed model call has
\* ended the run, the record of every question completed before it is in the
\* output file.
C19_CompletedSavedWhenRaised ==
    pc = "run_raised" => \A q \in DictKeys(generated_description) : InFile(q)

GeneratedOnce == \A q \in QuestionIds : events.generated[q] <= 1
AllRoundsComplete ==
    /\ \A k \in 1..Len(output_file.data) :
          output_file.data[k][2].calls = CallsPerQuestion(script)
    /\ \A k \in 1..Len(generated_description) :
          generated_description[k][2].calls = CallsPerQuestion(script)
SkippedWithoutCall ==
    (pc = "run_loop" /\ idx <= Len(questions)
        /\ DictHas(generated_description, questions[idx]))
    => /\ calls = 0
       /\ calls' = 0
       /\ generated_description' = generated_description
       /\ output_file' = output_file
       /\ idx' = idx + 1
WrittenBackUnchanged ==
    \A k \in 1..Len(output_file.data) :
        /\ k <= Len(output_file'.data)
        /\ output_file'.data[k] = output_file.data[k]

\* C20: in the resumable scripts (gen_gsm_scot, gen_gsm-scot,
\* gen_gsm_confidence_seperate, gen_gsm_group), over any number of runs, a
\* question that has a record is passed over without a model call, every
\* record of the output file stays in the file as it is at every step, no
\* question is generated twice, and every record, in the file or in memory,
\* is the result of all the model calls of its question.
C20_ResumptionIdempotent ==
    /\ [](Resumable(script) => (GeneratedOnce /\ AllRoundsComplete))
    /\ [][Resumable(script) => (SkippedWithoutCall /\ WrittenBackUnchanged)]_vars

\* gen_gsm-scot was stopped by a failed call after its first question, was
\* started again, skipped that question, generated the other and ended.
C20_Witness ==
    /\ script = "gen_gsm-scot"
    /\ questions = <<1, 2>>
    /\ pc = "run_completed"
    /\ runs = 2
    /\ events = [generated |-> [q \in QuestionIds |-> 1], skipped |-> TRUE,
                 failed |-> TRUE]
    /\ Len(output_file.data) = 2

\* C21 as stated: no record of an output file is computed from a response
\* that was substituted for a failed model call (call_openai_api answers ""
\* when the call raises).
C21_NoSubstitutedResponse ==
    \A k \in 1..Len(output_file.data) : output_file.data[k][2].content # ""

-----------------------------------------------------------------------------
(* Claims about the debates (SpecDebate) *)

\* The round a message of a context belongs to: the number of assistant
\* messages before it.
RoundOf(context, k) ==
    Cardinality({m \in 1..(k - 1) : context[m].role = "assistant"})

\* The prompts of agent i that were built from other agents' responses.
DebatePrompts(i) ==
    {k \in 1..Len(agent_contexts[i]) :
        /\ agent_contexts[i][k].role = "user"
        /\ RoundOf(agent_contexts[i], k) >= 1}

\* The responses the other agents gave in round r, in the order of the agents.
ResponsesOfOthers(i, r) ==
    LET others == agent_contexts_other([j \in 1..Len(agent_contexts) |-> j], i)
    IN  [k \in 1..Len(others) |-> <<others[k], r>>]

\* C22 as stated: the prompt built for agent i in round r >= 1 quotes the
\* round r-1 response of each other agent and nothing else: never a response
\* another agent gave in round r.
C22_RoundsSynchronous ==
    pc \in {"debate", "debate_done"} =>
        \A i \in 1..Len(agent_contexts) : \A k \in DebatePrompts(i) :
            agent_contexts[i][k].quotes =
                ResponsesOfOthers(i, RoundOf(agent_contexts[i], k) - 1)

\* The same statement for gen_gsm.py alone.
C22_BatchedRoundsSynchronous == script = "gen_gsm" => C22_RoundsSynchronous

-----------------------------------------------------------------------------
(* Claims about the confidence-score debates (SpecConfiscore) *)

\* C23 as stated: the per-question debate loop of gen_gsm_confiscore and
\* gen_gsm_confiscore_v3-5 always terminates, also when the rounds have all
\* scores below LOW_THRESHOLD and the round counter is reset by the restart.
C23_DebateTerminates ==
    script \in StatelessScripts => <>(pc \in {"confiscore_done", "confiscore_raised"})

\* The loops of the stateful scripts, which count the rounds with range(rounds),
\* do terminate.
C23_StatefulDebateTerminates ==
    script \in StatefulScripts => <>(pc = "confiscore_done")

\* A context the model can be called with: it ends with a user message, and no
\* two messages in a row have the same role.
WellFormedContext(context) ==
    /\ Last(context).role = "user"
    /\ \A k \in 1..(Len(context) - 1) : context[k].role # context[k + 1].role

\* A round is about to start.
RoundStarts == pc = "confiscore" /\ agent_i = 1

\* C24 as stated: in the stateful scripts, after a round in which all critic
\* scores were below LOW_THRESHOLD every agent's context was extended with its
\* own restart prompt, so that when the next round starts every agent's context
\* ends with a user message and user and assistant messages alternate.
C24_RestartExtendsEveryContext ==
    (script \in StatefulScripts /\ RoundStarts) =>
        \A i \in 1..Len(agent_contexts) :
            /\ WellFormedContext(agent_contexts[i])
            /\ \A k \in 1..Len(agent_contexts[i]) :
                   agent_contexts[i][k].kind = "restart" => agent_contexts[i][k].agent = i

\* The same statement for gen_gsm_role_specialization.py alone.
C24_RoleSpecializationRestart ==
    script = "gen_gsm_role_specialization" => C24_RestartExtendsEveryContext

\* The debate ended by the break of Condition A; this_round holds the answers
\* and scores of the round it ended in.
EarlyStopped == pc = "confiscore_done" /\ this_round # NoRound

NumericConsensus ==
    /\ \A k \in 1..Len(this_round.answers) : this_round.answers[k] # NoneVal
    /\ Cardinality({this_round.answers[k] : k \in 1..Len(this_round.answers)}) = 1

\* C28 as stated: a debate stops early only in a round where every agent has an
\* extracted numeric answer, the answers are all identical and every critic
\* score is at least HIGH_THRESHOLD; in that round no debate or restart prompt
\* is appended.
C28_EarlyStopOnlyOnConsensus ==
    EarlyStopped =>
        /\ NumericConsensus
        /\ \A k \in 1..Len(this_round.scores) :
               this_round.scores[k] >= HIGH_THRESHOLD(script)
        /\ \A i \in 1..Len(agent_contexts) : Last(agent_contexts[i]).role = "assistant"

\* The part of the statement gen_gsm_confiscore.py departs from: its answers
\* are identical, numeric or not (None for every agent is a consensus).
C28_ConfiscoreStopsOnNumericAnswers ==
    (EarlyStopped /\ script = "gen_gsm_confiscore") => NumericConsensus

\* The part of the statement gen_gsm_role_specialization.py departs from: its
\* scores are tested against 8, not against HIGH_THRESHOLD = 9.
C28_RoleSpecializationStopsAtThreshold ==
    (EarlyStopped /\ script = "gen_gsm_role_specialization") =>
        \A k \in 1..Len(this_round.scores) :
            this_round.scores[k] >= HIGH_THRESHOLD(script)

\* C25 as stated: parsing a critic's output never aborts the script, and the
\* score it records is an integer in 1..10 (the stated score clamped, 5 when
\* none is stated).
C25_ScoreParsingNeverAborts ==
    /\ pc # "confiscore_raised"
    /\ \A k \in 1..Len(this_round.scores) : this_round.scores[k] \in 1..10

\* The recorded scores alone: whenever a score is recorded it is in 1..10.
C25_RecordedScoresInRange ==
    \A k \in 1..Len(this_round.scores) : this_round.scores[k] \in 1..10

-----------------------------------------------------------------------------
(* Claims about the critic-actor scripts (SpecCritic) *)

\* A float: a rational, not None.
IsNumber(x) == x # NoneVal /\ Len(x) = 2 /\ x[2] > 0

WellFormedItem(item) ==
    /\ DOMAIN item = {"solution", "score"}
    /\ IsNumber(item.score.logic_score)
    /\ IsNumber(item.score.computation_score)

\* C26: the record written for a question has all_rounds_data of exactly
\* config['rounds'] lists, each of exactly config['agents'] items that carry a
\* solution and a score with numeric logic_score and computation_score;
\* round_1_results is the first of the lists and final_round_results the last.
\* This holds also when model calls returned nothing or a critic's output could
\* not be parsed (the scores are then the default 0.0).
C26_RecordShape ==
    pc = "critic_done" =>
        LET written == results[1]
            data == written.all_rounds_data
        IN  /\ Len(data) = config.rounds
            /\ \A r \in 1..Len(data) :
                   /\ Len(data[r]) = config.agents
                   /\ \A i \in 1..Len(data[r]) : WellFormedItem(data[r][i])
            /\ written.round_1_results = data[1]
            /\ written.final_round_results = data[Len(data)]

\* A record of two rounds of two agents in which a model call returned nothing,
\* a critic's output had no JSON and another critic's JSON held a score that is
\* not a number.
C26_Witness ==
    /\ pc = "critic_done"
    /\ config = [agents |-> 2, rounds |-> 2]
    /\ results[1].round_1_results[1].solution = ""
    /\ results[1].round_1_results[1].score = default_score
    /\ results[1].final_round_results[2].score.logic_score = <<7, 1>>
    /\ results[1].final_round_results[1].score.computation_score = <<0, 1>>
    /\ results[1].round_1_results # results[1].final_round_results

-----------------------------------------------------------------------------
(* Claims about the tolerance of the scorers (SpecScore) *)

IsIntegerLiteral(t) ==
    /\ t # NoneVal
    /\ t # <<>>
    /\ \A k \in 1..Len(t) : IsDigit(t[k])

\* The ground truth answer and the decision are literals of two different
\* integers.
DistinctIntegers(gt_answer, decision) ==
    /\ IsIntegerLiteral(gt_answer)
    /\ IsIntegerLiteral(decision)
    /\ IntOf(gt_answer) # IntOf(decision)

\* The part of C27 about distinct integers: check_correctness of
\* compare_accuracies.py and is_correct of compare_accuracies_3_7.py report no
\* match for two different integers, of any magnitude.
C27_DistinctIntegersDoNotMatch ==
    pc = "scored" =>
        /\ DistinctIntegers(get_ground_truth(ground_truth), prediction)
               => verdict.check_correctness = "0"
        /\ DistinctIntegers(SplitGroundTruth(ground_truth), prediction)
               => verdict.is_correct_3_7 = "False"

\* The part of C27 about symmetry: the verdict of either scorer does not depend
\* on which of the two values is the ground truth.
C27_VerdictSymmetric ==
    pc = "scored" =>
        /\ check_correctness(get_ground_truth(ground_truth), prediction)
               = check_correctness(prediction, get_ground_truth(ground_truth))
        /\ is_correct_3_7(prediction, SplitGroundTruth(ground_truth))
               = is_correct_3_7(SplitGroundTruth(ground_truth), prediction)

\* C27 as stated: a decision is accepted only when it equals the ground truth up
\* to a small absolute tolerance, so that two different integers of any
\* magnitude never match, and the verdict is symmetric in its arguments.
C27_AbsoluteTolerance == C27_DistinctIntegersDoNotMatch /\ C27_VerdictSymmetric

-----------------------------------------------------------------------------
(* Claims about the blind review (SpecReview) *)

RECURSIVE Flatten(_)
Flatten(lists) ==
    IF lists = <<>> THEN <<>> ELSE Head(lists) \o Flatten(Tail(lists))

\* The reviews given so far, of all judges, that are about agent i: their label
\* is one of A, B, C and stands for agent i.
ReviewsAbout(i) ==
    SelectSeq(Flatten(blind_reviews),
              LAMBDA r : r.candidate \in {"A", "B", "C"} /\ DictGet(mapping, r.candidate, 0) = i)

ScoresOf(reviews) == [k \in 1..Len(reviews) |-> reviews[k].final_score]

\* C29: the label -> agent mapping is a bijection between A, B, C and 0, 1, 2; a
\* judge's score for a label is appended to the scores of exactly the agent the
\* label stands for, a review of an unknown label is ignored, and the feedback
\* shown to agent i in round 3 is exactly the reviews of the label that carried
\* agent i's solution.
C29_BlindReviewFiledByLabel ==
    pc \in {"review", "round3", "corrected"} =>
        /\ DictKeys(mapping) = {"A", "B", "C"}
        /\ Len(mapping) = NumAgents
        /\ {DictGet(mapping, l, 0) : l \in {"A", "B", "C"}} = Agents
        /\ \A i \in Agents : scores_map[i] = ScoresOf(ReviewsAbout(i))
        /\ pc = "corrected" => \A i \in Agents : my_feedback[i] = ReviewsAbout(i)

\* A shuffle that moved every agent, a review of each of two candidates, a
\* review of an unknown label, and two agents with feedback in round 3.
C29_Witness ==
    /\ pc = "corrected"
    /\ \A k \in 1..NumAgents : mapping[k][2] # k - 1
    /\ \E r \in 1..Len(Flatten(blind_reviews)) : Flatten(blind_reviews)[r].candidate = "D"
    /\ Len(Flatten(blind_reviews)) = 4
    /\ Cardinality({i \in Agents : my_feedback[i] # <<>>}) = 2

-----------------------------------------------------------------------------
(* Claims about the repair of the final decisions (SpecRepair) *)

FieldOf(res, k) == DictGet(res, k, Missing)

\* The decision of the entry is a non-empty text other than "Error" that
\* holds neither '"' nor '+'.
SoundDecision(res) ==
    LET final == FieldOf(res, "final_decision")
    IN  /\ final \notin {Missing, <<>>, ErrorVal}
        /\ \A i \in 1..Len(final) : final[i] \notin {"\"", "+"}

\* C30: a run of repair_json_3_7 keeps the questions of the file; it writes
\* back unchanged every entry whose final_decision is non-empty, is not
\* "Error" and holds neither '"' nor '+'; in an entry that it changes, only
\* final_decision and recanted change, and recanted is then true exactly when
\* the new final_decision differs from temp_decision; and a second run, on
\* the output of the first, changes nothing.
C30_RepairChangesOnlyBrokenDecisions ==
    [][/\ Len(json_data') = Len(json_data)
       /\ \A n \in 1..Len(json_data) :
            LET old == json_data[n][2]
                new == json_data'[n][2]
            IN  /\ json_data'[n][1] = json_data[n][1]
                /\ SoundDecision(old) => new = old
                /\ \A k \in (DictKeys(old) \cup DictKeys(new))
                              \ {"final_decision", "recanted"} :
                       FieldOf(new, k) = FieldOf(old, k)
                /\ new # old =>
                       /\ FieldOf(new, "final_decision") # FieldOf(old, "final_decision")
                       /\ FieldOf(new, "recanted") =
                              PyBool(FieldOf(new, "final_decision")
                                         # FieldOf(new, "temp_decision"))
       /\ (pc = "repaired" => json_data' = json_data)]_vars

\* Both runs are over; the first one repaired the first entry, whose new
\* decision still holds a '+', and wrote the second entry, whose decision
\* was sound, back as it was.
C30_Witness ==
    /\ pc = "repaired_again"
    /\ Len(json_data) = 2
    /\ json_data[1][2] # json_before[1][2]
    /\ LooksLikeCode(FieldOf(json_data[1][2], "final_decision"))
    /\ FieldOf(json_data[1][2], "recanted") = PyFalse
    /\ SoundDecision(json_before[2][2])
    /\ json_data[2][2] = json_before[2][2]

====
